---- MODULE Spec2Model ----
(***************************************************************************)
(* madpacket: compile-time packet layouts with zero-copy views over raw    *)
(* byte buffers and over volatile (MMIO) memory.                           *)
(*                                                                         *)
(* Machine integers are modelled as the set of their one-bit positions:    *)
(* a std::uint64_t is a subset of 0..63, a __uint128_t a subset of 0..127. *)
(* Bitwise and/or are set intersection/union, shifts move the positions    *)
(* and drop what leaves the width, and subtraction is a ripple borrow.     *)
(* Memory bytes are integers 0..255.                                       *)
(***************************************************************************)
EXTENDS Integers, Sequences, FiniteSets, TLC

\* ------------------------------------------------------------------ bounds

\* largest number of padding bits in front of the accessed field
MaxLead == 7

\* -------------------------------------------------------- program constants

\* widest integer field (static_assert in int_field)
MaxBits == 64

U64 == 0 .. 63
U128 == 0 .. 127

\* ------------------------------------------------------- machine integers

Pow2(n) == 2 ^ n

\* the bits of every unsigned char
ByteBitsTab == [ b \in 0 .. 255 |-> { i \in 0 .. 7 : (b \div Pow2(i)) % 2 = 1 } ]

\* the bits of an unsigned char
ByteBits(b) == ByteBitsTab[b]

\* bit k of x as a number
Bit(x, k) == IF k \in x THEN 1 ELSE 0

\* static_cast<unsigned char>((x >> sh) & 0xFF)
ByteFrom(x, sh) ==
    Bit(x, sh) + 2 * Bit(x, sh + 1) + 4 * Bit(x, sh + 2) + 8 * Bit(x, sh + 3)
    + 16 * Bit(x, sh + 4) + 32 * Bit(x, sh + 5) + 64 * Bit(x, sh + 6)
    + 128 * Bit(x, sh + 7)

\* static_cast<unsigned char>(x & 0xFF)
BitsByte(x) == ByteFrom(x, 0)

\* x << s in a w-bit unsigned type
Shl(x, s, w) == { i + s : i \in { j \in x : j + s < w } }
\* x >> s
Shr(x, s) == { i - s : i \in { j \in x : j >= s } }
\* ~x in a w-bit unsigned type
Not(x, w) == (0 .. (w - 1)) \ x
Xor(x, y) == (x \ y) \cup (y \ x)
\* static_cast to an unsigned type of w bits
Trunc(x, w) == { i \in x : i < w }

RECURSIVE SubBorrow(_, _, _, _, _)
SubBorrow(a, b, i, borrow, w) ==
    IF i = w THEN {}
    ELSE LET ai == IF i \in a THEN 1 ELSE 0
             bi == (IF i \in b THEN 1 ELSE 0) + borrow
             d  == (ai - bi) % 2
             bo == IF ai < bi THEN 1 ELSE 0
         IN  (IF d = 1 THEN {i} ELSE {}) \cup SubBorrow(a, b, i + 1, bo, w)

\* a - b modulo 2^w
Sub(a, b, w) == SubBorrow(a, b, 0, 0, w)

\* (byte i of x) = (x >> (i * 8)) & 0xFF
ByteAt(x, i) == ByteFrom(x, i * 8)

\* static_cast<U>(byte) << (i * 8)
ByteShl(b, i) == { j + 8 * i : j \in ByteBits(b) }

\* ------------------------------------------------------ detail utilities

\* bswap<U>, sizeof(U) = n: byte k goes to byte n-1-k
bswap(x, n) == { 8 * (n - 1 - (i \div 8)) + (i % 8) : i \in Trunc(x, 8 * n) }

need_bswap_little_host(host, endian) == endian = "big"

\* need_bswap<EndianTag> on a host of the given byte order
need_bswap(host, endian) ==
    IF host = "little" THEN endian = "big" ELSE endian = "little"

\* is_native_endian<EndianTag>
is_native_endian(host, endian) ==
    \/ endian = "native"
    \/ host = "little" /\ endian = "little"
    \/ host = "big" /\ endian = "big"

\* mask64<Bits> = (Bits == 64) ? ~0ull : ((1ull << Bits) - 1ull), for every Bits
mask64Tab ==
    [ bits \in 1 .. MaxBits |->
        IF bits = 64 THEN Not({}, 64) ELSE Sub(Shl({0}, bits, 64), {0}, 64) ]

\* mask64<Bits>
mask64(bits) == mask64Tab[bits]

RECURSIVE load_le_loop(_, _, _, _)
load_le_loop(buf, p, i, n) ==
    IF i = n THEN {}
    ELSE ByteShl(buf[p + i], i) \cup load_le_loop(buf, p, i + 1, n)

\* load_u64_le_n<N>(p): N <= 8 bytes, lowest address least significant
load_u64_le_n(buf, p, n) == Trunc(load_le_loop(buf, p, 0, n), 64)

\* load_u128_le_n<N>(p): N <= 16
load_u128_le_n(buf, p, n) == Trunc(load_le_loop(buf, p, 0, n), 128)

bit_window_floor(BitOffset, BitCount) ==
    [ byte       |-> BitOffset \div 8,
      shift      |-> BitOffset % 8,
      need_bytes |-> ((BitOffset % 8) + BitCount) \div 8 ]

\* bit_window<BitOffset, BitCount>
bit_window(BitOffset, BitCount) ==
    [ byte       |-> BitOffset \div 8,
      shift      |-> BitOffset % 8,
      need_bytes |-> ((BitOffset % 8) + BitCount + 7) \div 8 ]

\* read_bits_le, __SIZEOF_INT128__ defined
read_bits_le_128(buf, BitOffset, BitCount) ==
    LET W   == bit_window(BitOffset, BitCount)
        raw == Shr(load_u128_le_n(buf, W.byte, W.need_bytes), W.shift)
    IN  Trunc(raw, 64) \cap mask64(BitCount)

read_bits_le_64_lo_only(buf, BitOffset, BitCount) ==
    LET W  == bit_window(BitOffset, BitCount)
        lo == load_u64_le_n(buf, W.byte, IF W.need_bytes <= 8 THEN W.need_bytes ELSE 8)
    IN  Shr(lo, W.shift) \cap mask64(BitCount)

\* read_bits_le, two 64-bit halves
read_bits_le_64(buf, BitOffset, BitCount) ==
    LET W   == bit_window(BitOffset, BitCount)
        lo  == load_u64_le_n(buf, W.byte, IF W.need_bytes <= 8 THEN W.need_bytes ELSE 8)
        hi  == IF W.need_bytes > 8 THEN ByteBits(buf[W.byte + 8]) ELSE {}
        out == IF W.shift = 0 THEN lo
               ELSE Shr(lo, W.shift) \cup Shl(hi, 64 - W.shift, 64)
    IN  out \cap mask64(BitCount)

read_bits_le(int128, buf, BitOffset, BitCount) ==
    IF int128 THEN read_bits_le_128(buf, BitOffset, BitCount)
    ELSE read_bits_le_64(buf, BitOffset, BitCount)

\* the bytes buf[first .. first+n-1] replaced by bytes 0..n-1 of x
StoreBytes(buf, first, n, x) ==
    [ a \in DOMAIN buf |->
        IF a >= first /\ a < first + n THEN ByteAt(x, a - first) ELSE buf[a] ]

write_bits_le_128_unshifted(buf, BitOffset, BitCount, value0) ==
    LET W     == bit_window(BitOffset, BitCount)
        value == value0 \cap mask64(BitCount)
        raw   == load_u128_le_n(buf, W.byte, W.need_bytes)
        m     == mask64(BitCount)
        new   == (raw \cap Not(m, 128)) \cup Shl(value, W.shift, 128)
    IN  StoreBytes(buf, W.byte, W.need_bytes, new)

\* write_bits_le, __SIZEOF_INT128__ defined
write_bits_le_128(buf, BitOffset, BitCount, value0) ==
    LET W     == bit_window(BitOffset, BitCount)
        value == value0 \cap mask64(BitCount)
        raw   == load_u128_le_n(buf, W.byte, W.need_bytes)
        m     == Shl(mask64(BitCount), W.shift, 128)
        new   == (raw \cap Not(m, 128)) \cup Shl(value, W.shift, 128)
    IN  StoreBytes(buf, W.byte, W.need_bytes, new)

write_bits_le_64_hi_overwritten(buf, BitOffset, BitCount, value0) ==
    LET W     == bit_window(BitOffset, BitCount)
        value == value0 \cap mask64(BitCount)
        lo0   == load_u64_le_n(buf, W.byte, IF W.need_bytes <= 8 THEN W.need_bytes ELSE 8)
        s     == W.shift
        lo    == (lo0 \cap Not(Shl(mask64(BitCount), s, 64), 64)) \cup Shl(value, s, 64)
        b1    == StoreBytes(buf, W.byte, IF W.need_bytes <= 8 THEN W.need_bytes ELSE 8, lo)
    IN  IF W.need_bytes > 8
        THEN [ b1 EXCEPT ![W.byte + 8] = BitsByte(Shr(value, 64 - s)) ]
        ELSE b1

\* write_bits_le, two 64-bit halves
write_bits_le_64(buf, BitOffset, BitCount, value0) ==
    LET W     == bit_window(BitOffset, BitCount)
        value == value0 \cap mask64(BitCount)
        lo0   == load_u64_le_n(buf, W.byte, IF W.need_bytes <= 8 THEN W.need_bytes ELSE 8)
        hi0   == IF W.need_bytes > 8 THEN ByteBits(buf[W.byte + 8]) ELSE {}
        m     == mask64(BitCount)
        s     == W.shift
        lo    == (lo0 \cap Not(Shl(m, s, 64), 64)) \cup Shl(value, s, 64)
        hi    == IF W.need_bytes > 8
                 THEN (hi0 \cap Not(Shr(m, 64 - s), 64)) \cup Shr(value, 64 - s)
                 ELSE hi0
        store_lo == IF W.need_bytes <= 8 THEN W.need_bytes ELSE 8
        b1    == StoreBytes(buf, W.byte, store_lo, lo)
    IN  IF W.need_bytes > 8
        THEN [ b1 EXCEPT ![W.byte + 8] = BitsByte(hi) ]
        ELSE b1

write_bits_le_msb_first(int128, buf, BitOffset, BitCount, value) ==
    LET s == BitOffset % 8
    IN  IF s + BitCount <= 8
        THEN write_bits_le_128(buf, BitOffset - s + (8 - BitCount - s), BitCount, value)
        ELSE write_bits_le_128(buf, BitOffset, BitCount, value)

write_bits_le(int128, buf, BitOffset, BitCount, value) ==
    IF int128 THEN write_bits_le_128(buf, BitOffset, BitCount, value)
    ELSE write_bits_le_64(buf, BitOffset, BitCount, value)

sign_extend_zero(Bits, Signed, x) == x

\* sign_extend<Bits, Signed>(x)
sign_extend(Bits, Signed, x) ==
    IF ~Signed THEN x
    ELSE IF Bits = 64 THEN x
    ELSE LET sign == Shl({0}, Bits - 1, 64)
         IN  Sub(Xor(x, sign), sign, 64)

\* to_u64(v) of a 64-bit integer argument
to_u64(v) == Trunc(v, 64)

\* static_cast<std::int64_t>(static_cast<S>(x)), S the signed type of `bits` bits
SignedCast(x, bits) ==
    IF (bits - 1) \in x THEN x \cup (bits .. 63) ELSE x

RECURSIVE pod_loop(_, _, _, _, _)
pod_loop(host, buf, p, i, n) ==
    IF i = n THEN {}
    ELSE ByteShl(buf[p + i], IF host = "little" THEN i ELSE n - 1 - i)
         \cup pod_loop(host, buf, p, i + 1, n)

\* load_pod_le<U>(p): memcpy of sizeof(U) = n bytes into a host integer
load_pod_le(host, buf, p, n) == pod_loop(host, buf, p, 0, n)

\* store_pod_le<U>(p, x): memcpy of the host integer x to n bytes
store_pod_le(host, buf, p, n, x) ==
    [ a \in DOMAIN buf |->
        IF a >= p /\ a < p + n
        THEN ByteAt(x, IF host = "little" THEN a - p ELSE n - 1 - (a - p))
        ELSE buf[a] ]

\* ------------------------------------------------------------ the layout

\* int_field<Name, Bits, Signed, EndianTag>
int_field(name, bits, signed, endian) ==
    [ kind |-> "int_bits", name |-> name, bits |-> bits, signed |-> signed,
      endian |-> endian, sub |-> <<>> ]

\* bytes_field<Name, N>
bytes_field(name, n) ==
    [ kind |-> "bytes", name |-> name, bits |-> n * 8, signed |-> FALSE,
      endian |-> "native", sub |-> <<>> ]

\* pad_bits<Bits>: has_name = false
pad_bits(bits) ==
    [ kind |-> "pad", name |-> "", bits |-> bits, signed |-> FALSE,
      endian |-> "native", sub |-> <<>> ]

RECURSIVE SumBits(_, _)
SumBits(fields, n) ==
    IF n = 0 THEN 0 ELSE fields[n].bits + SumBits(fields, n - 1)

\* packet::total_bits = (0 + ... + Fields::bits)
total_bits(fields) == SumBits(fields, Len(fields))

\* packet::total_bytes = (total_bits + 7) >> 3
total_bytes(fields) == (total_bits(fields) + 7) \div 8

\* subpacket_field<Packet, Name>: bits = Packet::total_bits
subpacket_field(packet, name) ==
    [ kind |-> "subpacket", name |-> name, bits |-> total_bits(packet),
      signed |-> FALSE, endian |-> "native", sub |-> packet ]

\* packet::offsets_bits[I] (fields are numbered from 1 here, from 0 in the source)
offsets_bits(fields, I) == SumBits(fields, I - 1)

\* packet::sizes_bits[I]
sizes_bits(fields, I) == fields[I].bits

\* the byte-aligned 8/16/32/64 test of get_impl / set_impl
IsScalar(shift, bits) == shift = 0 /\ bits \in {8, 16, 32, 64}

\* -------------------------------------------------------- the plain view

get_sub_unbased(fields, I, p) ==
    [ packet |-> fields[I].sub, addr |-> offsets_bits(fields, I) \div 8 ]

\* get_impl<Packet, Mutable, I>(base) for a subpacket field: the nested view
\* view_base<Sub, Mutable>(base + byte), as its packet and its base address
get_sub(fields, I, p) ==
    [ packet |-> fields[I].sub, addr |-> p + offsets_bits(fields, I) \div 8 ]

\* get_impl<Packet, Mutable, I>(base) for an int_bits field
get_impl(bld, fields, I, buf, base) ==
    LET F       == fields[I]
        bit_off == offsets_bits(fields, I)
        bits    == F.bits
        shift   == bit_off % 8
        byte    == bit_off \div 8
    IN  IF IsScalar(shift, bits)
        THEN LET x0 == load_pod_le(bld.host, buf, base + byte, bits \div 8)
                 x  == IF ~is_native_endian(bld.host, F.endian)
                          /\ need_bswap(bld.host, F.endian)
                       THEN bswap(x0, bits \div 8) ELSE x0
             IN  IF F.signed THEN SignedCast(x, bits) ELSE x
        ELSE sign_extend(bits, F.signed,
                         read_bits_le(bld.int128, buf, 8 * base + bit_off, bits))

\* set_impl<Packet, Mutable, I>(base, v) for an int_bits field
set_impl(bld, fields, I, buf, base, v) ==
    LET F       == fields[I]
        bit_off == offsets_bits(fields, I)
        bits    == F.bits
        shift   == bit_off % 8
        byte    == bit_off \div 8
    IN  IF IsScalar(shift, bits)
        THEN LET x0 == Trunc(to_u64(v), bits)
                 x  == IF ~is_native_endian(bld.host, F.endian)
                          /\ need_bswap(bld.host, F.endian)
                       THEN bswap(x0, bits \div 8) ELSE x0
             IN  store_pod_le(bld.host, buf, base + byte, bits \div 8, x)
        ELSE write_bits_le(bld.int128, buf, 8 * base + bit_off, bits, to_u64(v))

\* ------------------------------------------------ volatile memory accesses

\* The run of one MMIO get/set is a record st:
\*   mem    the volatile memory,
\*   tr     the memory transactions and barrier-hook calls made so far,
\*   status "ok" while running; "assert" / "trap" once an alignment check has
\*          ended the program; "ub" once an assumed alignment was false and
\*          the build faulted on it.
\* A step of an ended run does nothing.

Ev(kind, addr, width) == [ k |-> kind, a |-> addr, w |-> width ]

\* one single-byte volatile access per byte, in increasing address order
ByteEvents(kind, p, n) == [ i \in 1 .. n |-> Ev(kind, p + i - 1, 1) ]

AddEvents(st, evs) ==
    IF st.status = "ok" THEN [ st EXCEPT !.tr = @ \o evs ] ELSE st

SetMem(st, newmem) ==
    IF st.status = "ok" THEN [ st EXCEPT !.mem = newmem ] ELSE st

Start(buf) == [ mem |-> buf, tr |-> << >>, status |-> "ok" ]

\* the hook compiled to nothing
BarrierElided(st) == st

\* MAD_MMIO_BARRIER()
Barrier(st) == AddEvents(st, << Ev("hook", 0, 0) >>)

\* the typed fast path of mmio_load_pod / mmio_store_pod is taken
\* (alignof(U) = sizeof(U) = n)
TypedAccess(bld, n, BaseAlign, p) ==
    ~bld.strict /\ BaseAlign >= n /\ p % n = 0

\* mmio_load_pod<U, BaseAlign>(p), sizeof(U) = n: [st, val]
mmio_load_pod(bld, n, BaseAlign, st, p) ==
    [ st  |-> AddEvents(st, IF TypedAccess(bld, n, BaseAlign, p)
                            THEN << Ev("load", p, n) >>
                            ELSE ByteEvents("load", p, n)),
      val |-> load_pod_le(bld.host, st.mem, p, n) ]

\* mmio_store_pod<U, BaseAlign>(p, x), sizeof(U) = n
mmio_store_pod(bld, n, BaseAlign, st, p, x) ==
    SetMem(AddEvents(st, IF TypedAccess(bld, n, BaseAlign, p)
                         THEN << Ev("store", p, n) >>
                         ELSE ByteEvents("store", p, n)),
           store_pod_le(bld.host, st.mem, p, n, Trunc(x, 8 * n)))

\* mmio_load_u64_le_n<N>(p): [st, val]
mmio_load_u64_le_n(st, p, n) ==
    [ st  |-> AddEvents(st, ByteEvents("load", p, n)),
      val |-> load_u64_le_n(st.mem, p, n) ]

\* mmio_store_u64_le_n<N>(p, x)
mmio_store_u64_le_n(st, p, n, x) ==
    SetMem(AddEvents(st, ByteEvents("store", p, n)), StoreBytes(st.mem, p, n, x))

\* std::array<std::byte, need_bytes> tmp filled from base + W::byte
WindowCopy(buf, first, n) == [ i \in 0 .. (n - 1) |-> buf[first + i] ]

\* one typed load of the whole window
mmio_read_bits_le_typed(bld, st, base, BitOffset, BitCount) ==
    LET W   == bit_window(BitOffset, BitCount)
        tmp == WindowCopy(st.mem, base + W.byte, W.need_bytes)
    IN  [ st  |-> AddEvents(st, << Ev("load", base + W.byte, W.need_bytes) >>),
          val |-> read_bits_le(bld.int128, tmp, W.shift, BitCount) ]

\* mmio_read_bits_le<BitOffset, BitCount>(base): [st, val]
mmio_read_bits_le(bld, st, base, BitOffset, BitCount) ==
    LET W   == bit_window(BitOffset, BitCount)
        tmp == WindowCopy(st.mem, base + W.byte, W.need_bytes)
    IN  [ st  |-> AddEvents(st, ByteEvents("load", base + W.byte, W.need_bytes)),
          val |-> read_bits_le(bld.int128, tmp, W.shift, BitCount) ]

\* mmio_write_bits_le<BitOffset, BitCount>(base, value)
mmio_write_bits_le(bld, st, base, BitOffset, BitCount, value) ==
    LET W    == bit_window(BitOffset, BitCount)
        tmp  == WindowCopy(st.mem, base + W.byte, W.need_bytes)
        tmp2 == write_bits_le(bld.int128, tmp, W.shift, BitCount, value)
        st1  == AddEvents(st, ByteEvents("load", base + W.byte, W.need_bytes))
        st2  == AddEvents(st1, ByteEvents("store", base + W.byte, W.need_bytes))
    IN  SetMem(st2, [ a \in DOMAIN st.mem |->
                        IF a >= base + W.byte /\ a < base + W.byte + W.need_bytes
                        THEN tmp2[a - (base + W.byte)] ELSE st.mem[a] ])

\* ------------------------------------------------------------ the reg view

\* the bitfield lies in one bus word: fits_one && bus_bits <= 64 && bus_bits % 8 == 0
fits_one(bit_off, bits, bus_bytes) ==
    LET bus_bits    == bus_bytes * 8
        word_idx    == bit_off \div bus_bits
        bit_in_word == bit_off - word_idx * bus_bits
    IN  (bit_in_word + bits <= bus_bits) /\ bus_bits <= 64 /\ bus_bits % 8 = 0

\* vget_impl<Packet, Mutable, I, Bus, BaseAlign>(base) for an int_bits field: [st, val]
vget_impl(bld, fields, I, bus_bytes, BaseAlign, st, base) ==
    LET F       == fields[I]
        bit_off == offsets_bits(fields, I)
        bits    == F.bits
        shift   == bit_off % 8
        byte    == bit_off \div 8
    IN  IF IsScalar(shift, bits)
        THEN LET r  == mmio_load_pod(bld, bits \div 8, BaseAlign, st, base + byte)
                 x  == IF ~is_native_endian(bld.host, F.endian)
                          /\ need_bswap(bld.host, F.endian)
                       THEN bswap(r.val, bits \div 8) ELSE r.val
             IN  [ st |-> r.st, val |-> IF F.signed THEN SignedCast(x, bits) ELSE x ]
        ELSE LET bus_bits    == bus_bytes * 8
                 word_idx    == bit_off \div bus_bits
                 bit_in_word == bit_off - word_idx * bus_bits
             IN  IF fits_one(bit_off, bits, bus_bytes)
                 THEN LET r == mmio_load_u64_le_n(st, base + word_idx * bus_bytes, bus_bytes)
                          m == Shl(mask64(bits), bit_in_word, 64)
                          x == Shr(r.val \cap m, bit_in_word)
                      IN  [ st |-> r.st, val |-> sign_extend(bits, F.signed, x) ]
                 ELSE LET r == mmio_read_bits_le(bld, st, base, bit_off, bits)
                      IN  [ st |-> r.st, val |-> sign_extend(bits, F.signed, r.val) ]

\* the word is stored before the first hook call
vset_one_word_early_store(st, wp, bus_bytes, bits, bit_in_word, value) ==
    LET r  == mmio_load_u64_le_n(st, wp, bus_bytes)
        m  == Shl(mask64(bits), bit_in_word, 64)
        w  == (r.val \cap Not(m, 64)) \cup Shl(value, bit_in_word, 64)
    IN  Barrier(Barrier(mmio_store_u64_le_n(r.st, wp, bus_bytes, w)))

\* the one-bus-word read-modify-write of vset_impl
vset_one_word(st, wp, bus_bytes, bits, bit_in_word, value) ==
    LET r  == mmio_load_u64_le_n(st, wp, bus_bytes)
        m  == Shl(mask64(bits), bit_in_word, 64)
        w  == (r.val \cap Not(m, 64)) \cup Shl(value, bit_in_word, 64)
    IN  Barrier(mmio_store_u64_le_n(Barrier(r.st), wp, bus_bytes, w))

\* vset_impl<Packet, Mutable, I, V, Bus, BaseAlign>(base, v) for an int_bits field
vset_impl(bld, fields, I, bus_bytes, BaseAlign, st, base, v) ==
    LET F       == fields[I]
        bit_off == offsets_bits(fields, I)
        bits    == F.bits
        shift   == bit_off % 8
        byte    == bit_off \div 8
    IN  IF IsScalar(shift, bits)
        THEN LET x0 == Trunc(to_u64(v), bits)
                 x  == IF ~is_native_endian(bld.host, F.endian)
                          /\ need_bswap(bld.host, F.endian)
                       THEN bswap(x0, bits \div 8) ELSE x0
             IN  Barrier(mmio_store_pod(bld, bits \div 8, BaseAlign, Barrier(st),
                                        base + byte, x))
        ELSE LET bus_bits    == bus_bytes * 8
                 word_idx    == bit_off \div bus_bits
                 bit_in_word == bit_off - word_idx * bus_bits
                 value       == to_u64(v) \cap mask64(bits)
             IN  IF fits_one(bit_off, bits, bus_bytes)
                 THEN vset_one_word(st, base + word_idx * bus_bytes, bus_bytes,
                                    bits, bit_in_word, value)
                 ELSE Barrier(mmio_write_bits_le(bld, Barrier(st), base, bit_off,
                                                 bits, value))

\* ----------------------------------------------- xview: policies and widths

\* width_mask_t: the set of permitted transaction widths in bytes,
\* a subset of {1, 2, 4, 8} (bit0: 1B, bit1: 2B, bit2: 4B, bit3: 8B)
mask_for_bytes(bytes) == IF bytes \in {1, 2, 4, 8} THEN {bytes} ELSE {}

width_all == {1, 2, 4, 8}

\* cfg<Bus, BaseAlign, WidthPolicy, AlignPolicy, Caps>
cfg(bus_bytes, BaseAlign, WidthPolicy, AlignPolicy, ReadMask, WriteMask) ==
    [ bus |-> bus_bytes, base_align |-> BaseAlign, width |-> WidthPolicy,
      align |-> AlignPolicy, read_mask |-> ReadMask, write_mask |-> WriteMask ]

is_pow2(x) == x \in { Pow2(k) : k \in 0 .. 30 }

\* is_aligned(p, a) for a = 0 or a power of two: (p & (a - 1)) == 0
is_aligned(p, a) == IF a = 0 THEN TRUE ELSE p % a = 0

\* enforce_alignment<P>(p, a)
enforce_alignment(bld, P, st, p, a) ==
    IF st.status # "ok" THEN st
    ELSE CASE P = "unchecked" -> st
           [] P = "assert_"   -> IF bld.ndebug \/ (is_pow2(a) /\ is_aligned(p, a))
                                 THEN st ELSE [ st EXCEPT !.status = "assert" ]
           [] P = "trap"      -> IF is_aligned(p, a)
                                 THEN st ELSE [ st EXCEPT !.status = "trap" ]
           [] P = "assume"    -> IF is_aligned(p, a) \/ ~bld.ub_faults
                                 THEN st ELSE [ st EXCEPT !.status = "ub" ]

max_width_from_mask(m, max_bytes) ==
    CASE max_bytes >= 8 /\ 8 \in m -> 8
      [] max_bytes >= 4 /\ 4 \in m -> 4
      [] max_bytes >= 2 /\ 2 \in m -> 2
      [] max_bytes >= 1 /\ 1 \in m -> 1
      [] OTHER -> 0

min_width_ge(m, min_bytes, max_bytes) ==
    CASE min_bytes <= 1 /\ max_bytes >= 1 /\ 1 \in m -> 1
      [] min_bytes <= 2 /\ max_bytes >= 2 /\ 2 \in m -> 2
      [] min_bytes <= 4 /\ max_bytes >= 4 /\ 4 \in m -> 4
      [] min_bytes <= 8 /\ max_bytes >= 8 /\ 8 \in m -> 8
      [] OTHER -> 0

\* choose_width<WP>(region_bytes, offset_bytes, bus_bytes, mask); 0: no width
choose_width(WP, region_bytes, offset_bytes, bus_bytes, mask) ==
    CASE WP = "enforce_bus" ->
            IF mask \cap mask_for_bytes(bus_bytes) # {} THEN bus_bytes ELSE 0
      [] WP = "native" ->
            IF mask \cap mask_for_bytes(region_bytes) # {} THEN region_bytes
            ELSE min_width_ge(mask, region_bytes, bus_bytes)
      [] WP = "minimal_ok" ->
            min_width_ge(mask, region_bytes, bus_bytes)
      [] WP = "prefer_bus" ->
            IF region_bytes <= bus_bytes /\ mask \cap mask_for_bytes(bus_bytes) # {}
            THEN bus_bytes
            ELSE IF mask \cap mask_for_bytes(region_bytes) # {} THEN region_bytes
            ELSE min_width_ge(mask, region_bytes, bus_bytes)

\* ------------------------------------------------ xview: bus-word helpers

\* the word taken as little-endian on every host
host_word_to_le_stream_noswap(host, WordBytes, w) == Trunc(w, 8 * WordBytes)

host_word_to_le_stream(host, WordBytes, w) ==
    IF host = "little" THEN Trunc(w, 8 * WordBytes) ELSE bswap(w, WordBytes)

le_stream_to_host_word_noswap(host, WordBytes, le) == Trunc(le, 8 * WordBytes)

le_stream_to_host_word(host, WordBytes, le) ==
    IF host = "little" THEN Trunc(le, 8 * WordBytes) ELSE bswap(le, WordBytes)

byte_at_native(host, N, x, i) ==
    IF host = "little" THEN ByteAt(x, i) ELSE ByteAt(x, N - 1 - i)

\* b: the byte array, indexed from 0
assemble_native_from_bytes(host, N, b) ==
    UNION { ByteShl(b[i], IF host = "little" THEN i ELSE N - 1 - i) : i \in 0 .. (N - 1) }

byte_from_word_native(host, WordBytes, host_word, byte_index) ==
    IF host = "little" THEN ByteAt(host_word, byte_index)
    ELSE ByteAt(host_word, WordBytes - 1 - byte_index)

\* the mask of the whole bus word
mask_region_whole(host, WordBytes, byte_index, nbytes) == Not({}, 64)

mask_region_native(host, WordBytes, byte_index, nbytes) ==
    LET m == IF nbytes = 8 THEN Not({}, 64) ELSE mask64(nbytes * 8)
    IN  IF host = "little" THEN Shl(m, byte_index * 8, 64)
        ELSE Shl(m, (WordBytes - byte_index - nbytes) * 8, 64)

shift_region_native(host, WordBytes, byte_index, nbytes) ==
    IF host = "little" THEN byte_index * 8
    ELSE (WordBytes - byte_index - nbytes) * 8

bswap_n(N, x) == IF N = 1 THEN Trunc(x, 8) ELSE bswap(x, N)

\* the alignment every bus transaction is checked against
BusCheckAlign(c) == IF c.base_align < c.bus THEN c.base_align ELSE c.bus

\* mmio_load_bus_host<Bus, BaseAlign, AP>(p): [st, val]
mmio_load_bus_host(bld, c, st, p) ==
    LET st1 == enforce_alignment(bld, c.align, st, p, BusCheckAlign(c))
    IN  IF ~bld.strict /\ c.base_align >= c.bus /\ p % c.bus = 0
        THEN [ st  |-> AddEvents(st1, << Ev("load", p, c.bus) >>),
               val |-> load_pod_le(bld.host, st.mem, p, c.bus) ]
        ELSE mmio_load_pod(bld, c.bus, c.base_align, st1, p)

\* mmio_store_bus_host<Bus, BaseAlign, AP>(p, host_value)
mmio_store_bus_host(bld, c, st, p, host_value) ==
    LET st1 == enforce_alignment(bld, c.align, st, p, BusCheckAlign(c))
    IN  IF ~bld.strict /\ c.base_align >= c.bus /\ p % c.bus = 0
        THEN SetMem(AddEvents(st1, << Ev("store", p, c.bus) >>),
                    store_pod_le(bld.host, st.mem, p, c.bus, Trunc(host_value, 8 * c.bus)))
        ELSE mmio_store_pod(bld, c.bus, c.base_align, st1, p, Trunc(host_value, 8 * c.bus))

\* mmio_load_bus_le_stream<Bus, BaseAlign, AP>(p): [st, val]
mmio_load_bus_le_stream(bld, c, st, p) ==
    IF bld.strict
    THEN mmio_load_u64_le_n(enforce_alignment(bld, c.align, st, p, BusCheckAlign(c)),
                            p, c.bus)
    ELSE LET r == mmio_load_bus_host(bld, c, st, p)
         IN  [ st |-> r.st, val |-> host_word_to_le_stream(bld.host, c.bus, r.val) ]

\* mmio_store_bus_le_stream<Bus, BaseAlign, AP>(p, le_stream)
mmio_store_bus_le_stream(bld, c, st, p, le_stream) ==
    IF bld.strict
    THEN mmio_store_u64_le_n(enforce_alignment(bld, c.align, st, p, BusCheckAlign(c)),
                             p, c.bus, le_stream)
    ELSE mmio_store_bus_host(bld, c, st, p,
                             le_stream_to_host_word(bld.host, c.bus, le_stream))

\* --------------------------------------- xview: byte-aligned integer access

\* (N == 8 ? ~0ull : ((1ull << (N * 8u)) - 1ull))
LowBytesMask(N) == IF N = 8 THEN Not({}, 64) ELSE mask64(N * 8)

\* the N > B loop of load_int_bytes_native from word wi on: [st, bytes]
RECURSIVE load_words(_, _, _, _, _, _, _)
load_words(bld, c, N, st, p0, wi, bytes) ==
    LET B     == c.bus
        words == (N + B - 1) \div B
    IN  IF wi = words THEN [ st |-> st, bytes |-> bytes ]
        ELSE LET r    == mmio_load_bus_host(bld, c, st, p0 + wi * B)
                 take == IF wi = words - 1 THEN N - wi * B ELSE B
                 nb   == [ i \in 0 .. (N - 1) |->
                             IF i >= wi * B /\ i < wi * B + take
                             THEN byte_from_word_native(bld.host, B, r.val, i - wi * B)
                             ELSE bytes[i] ]
             IN  load_words(bld, c, N, r.st, p0, wi + 1, nb)

\* load_int_bytes_native<Bus, BaseAlign, AP, N>(base, byte_off): [st, val]
load_int_bytes_native(bld, c, N, st, base, byte_off) ==
    LET B == c.bus
    IN  IF N = B THEN mmio_load_bus_host(bld, c, st, base + byte_off)
        ELSE IF N < B
        THEN LET widx == byte_off \div B
                 bin  == byte_off - widx * B
                 wp   == base + widx * B
                 r1   == mmio_load_bus_host(bld, c, st, wp)
             IN  IF bin + N <= B
                 THEN LET sh == shift_region_native(bld.host, B, bin, N)
                          m  == Shl(LowBytesMask(N), sh, 64)
                      IN  [ st |-> r1.st, val |-> Shr(r1.val \cap m, sh) ]
                 ELSE LET r2    == mmio_load_bus_host(bld, c, r1.st, wp + B)
                          bytes == [ i \in 0 .. (N - 1) |->
                                     IF bin + i < B
                                     THEN byte_from_word_native(bld.host, B, r1.val, bin + i)
                                     ELSE byte_from_word_native(bld.host, B, r2.val,
                                                                bin + i - B) ]
                      IN  [ st  |-> r2.st,
                            val |-> assemble_native_from_bytes(bld.host, N, bytes) ]
        ELSE LET r == load_words(bld, c, N, st, base + byte_off, 0,
                                 [ i \in 0 .. (N - 1) |-> 0 ])
             IN  [ st |-> r.st, val |-> assemble_native_from_bytes(bld.host, N, r.bytes) ]

\* region assembled from bytes[first .. first + n) in host format
region_native(host, bytes, first, n) ==
    UNION { ByteShl(bytes[first + i], IF host = "little" THEN i ELSE n - 1 - i) :
            i \in 0 .. (n - 1) }

\* rmw ? mmio_load_bus_host(wp) : 0u
load_if_rmw(bld, c, st, wp, rmw) ==
    IF rmw THEN mmio_load_bus_host(bld, c, st, wp) ELSE [ st |-> st, val |-> {} ]

\* the N > B loop of store_int_bytes_native from word wi on
RECURSIVE store_words(_, _, _, _, _, _, _, _)
store_words(bld, c, N, st, p0, wi, bytes, rmw) ==
    LET B     == c.bus
        words == (N + B - 1) \div B
    IN  IF wi = words THEN st
        ELSE LET wp   == p0 + wi * B
                 take == IF wi = words - 1 THEN N - wi * B ELSE B
                 r    == load_if_rmw(bld, c, st, wp, rmw /\ take # B)
                 wb   == [ bi \in 0 .. (B - 1) |->
                             IF bi < take THEN bytes[wi * B + bi]
                             ELSE IF rmw /\ take # B
                                  THEN byte_from_word_native(bld.host, B, r.val, bi)
                                  ELSE 0 ]
                 neww == assemble_native_from_bytes(bld.host, B, wb)
             IN  store_words(bld, c, N, mmio_store_bus_host(bld, c, r.st, wp, neww),
                             p0, wi + 1, bytes, rmw)

\* store_int_bytes_native<Bus, BaseAlign, AP, N>(base, byte_off, native_value, rmw)
store_int_bytes_native(bld, c, N, st, base, byte_off, native_value, rmw) ==
    LET B     == c.bus
        bytes == [ i \in 0 .. (N - 1) |-> byte_at_native(bld.host, N, native_value, i) ]
    IN  IF N = B THEN mmio_store_bus_host(bld, c, st, base + byte_off, native_value)
        ELSE IF N < B
        THEN LET widx == byte_off \div B
                 bin  == byte_off - widx * B
                 wp   == base + widx * B
             IN  IF bin + N <= B
                 THEN LET r      == load_if_rmw(bld, c, st, wp, rmw)
                          sh     == shift_region_native(bld.host, B, bin, N)
                          m      == mask_region_native(bld.host, B, bin, N)
                          region == region_native(bld.host, bytes, 0, N)
                          w      == (r.val \cap Not(m, 64)) \cup (Shl(region, sh, 64) \cap m)
                      IN  mmio_store_bus_host(bld, c, r.st, wp, w)
                 ELSE LET wp2         == wp + B
                          first_take  == B - bin
                          second_take == N - first_take
                          r0  == load_if_rmw(bld, c, st, wp, rmw)
                          r1  == load_if_rmw(bld, c, r0.st, wp2, rmw)
                          m0  == mask_region_native(bld.host, B, bin, first_take)
                          m1  == mask_region_native(bld.host, B, 0, second_take)
                          rg0 == region_native(bld.host, bytes, 0, first_take)
                          rg1 == region_native(bld.host, bytes, first_take, second_take)
                          sh0 == shift_region_native(bld.host, B, bin, first_take)
                          sh1 == shift_region_native(bld.host, B, 0, second_take)
                          w0  == (r0.val \cap Not(m0, 64)) \cup (Shl(rg0, sh0, 64) \cap m0)
                          w1  == (r1.val \cap Not(m1, 64)) \cup (Shl(rg1, sh1, 64) \cap m1)
                      IN  mmio_store_bus_host(bld, c,
                              mmio_store_bus_host(bld, c, r1.st, wp, w0), wp2, w1)
        ELSE store_words(bld, c, N, st, base + byte_off, 0, bytes, rmw)

\* ------------------------------------------------------------- the xview

\* xget_impl<Packet, Mutable, I, Cfg>(base) for an int_bits field: [st, val]
xget_impl(bld, fields, I, c, st, base) ==
    LET F        == fields[I]
        bit_off  == offsets_bits(fields, I)
        bits     == F.bits
        shift    == bit_off % 8
        byte_off == bit_off \div 8
        swap     == ~is_native_endian(bld.host, F.endian) /\ need_bswap(bld.host, F.endian)
    IN  IF IsScalar(shift, bits)
        THEN LET N      == bits \div 8
                 chosen == choose_width(c.width, N, byte_off, c.bus, c.read_mask)
             IN  IF c.width = "native" /\ chosen = N
                 THEN LET r == mmio_load_pod(bld, N, c.base_align, st, base + byte_off)
                          x == IF swap THEN bswap(r.val, N) ELSE r.val
                      IN  [ st  |-> r.st,
                            val |-> IF F.signed THEN SignedCast(x, bits) ELSE x ]
                 ELSE LET r == load_int_bytes_native(bld, c, N, st, base, byte_off)
                          v == IF swap THEN bswap_n(N, r.val) ELSE r.val
                      IN  [ st  |-> r.st,
                            val |-> IF F.signed THEN sign_extend(bits, TRUE, v)
                                    ELSE v \cap mask64(bits) ]
        ELSE LET bus_bits    == c.bus * 8
                 word_idx    == bit_off \div bus_bits
                 bit_in_word == bit_off - word_idx * bus_bits
             IN  IF fits_one(bit_off, bits, c.bus)
                 THEN LET r == mmio_load_bus_le_stream(bld, c, st, base + word_idx * c.bus)
                          m == Shl(mask64(bits), bit_in_word, 64)
                          x == Shr(r.val \cap m, bit_in_word)
                      IN  [ st |-> r.st, val |-> sign_extend(bits, F.signed, x) ]
                 ELSE LET r == mmio_read_bits_le(bld, st, base, bit_off, bits)
                      IN  [ st |-> r.st, val |-> sign_extend(bits, F.signed, r.val) ]

\* xset_impl<Packet, Mutable, I, V, Cfg>(base, v) for an int_bits field
xset_impl(bld, fields, I, c, st, base, v) ==
    LET F        == fields[I]
        bit_off  == offsets_bits(fields, I)
        bits     == F.bits
        shift    == bit_off % 8
        byte_off == bit_off \div 8
        swap     == ~is_native_endian(bld.host, F.endian) /\ need_bswap(bld.host, F.endian)
    IN  IF IsScalar(shift, bits)
        THEN LET N      == bits \div 8
                 in64   == to_u64(v) \cap mask64(bits)
                 native == IF swap THEN bswap_n(N, in64) ELSE in64
                 chosen == choose_width(c.width, N, byte_off, c.bus, c.write_mask)
                 rmw    == IF c.width = "enforce_bus" THEN N # c.bus
                           ELSE (chosen # 0 /\ chosen > N) \/ (N % c.bus # 0)
             IN  IF c.width = "native" /\ chosen = N
                 THEN Barrier(mmio_store_pod(bld, N, c.base_align, Barrier(st),
                                             base + byte_off, Trunc(native, bits)))
                 ELSE Barrier(store_int_bytes_native(bld, c, N, Barrier(st), base,
                                                     byte_off, native, rmw))
        ELSE LET bus_bits    == c.bus * 8
                 word_idx    == bit_off \div bus_bits
                 bit_in_word == bit_off - word_idx * bus_bits
                 value       == to_u64(v) \cap mask64(bits)
             IN  IF fits_one(bit_off, bits, c.bus)
                 THEN LET wp == base + word_idx * c.bus
                          r  == mmio_load_bus_le_stream(bld, c, st, wp)
                          m  == Shl(mask64(bits), bit_in_word, 64)
                          w  == (r.val \cap Not(m, 64)) \cup Shl(value, bit_in_word, 64)
                      IN  Barrier(mmio_store_bus_le_stream(bld, c, Barrier(r.st), wp, w))
                 ELSE Barrier(mmio_write_bits_le(bld, Barrier(st), base, bit_off,
                                                 bits, value))

\* reg::make_view<Packet, Bus, BaseAlign>(addr): MAD_ASSERT on the base alignment
make_view(bld, BaseAlign, st, addr) ==
    IF bld.ndebug \/ addr % BaseAlign = 0 THEN st ELSE [ st EXCEPT !.status = "assert" ]

\* reg::make_xview<Packet, Cfg>(addr)
make_xview(bld, c, st, addr) ==
    LET st1 == enforce_alignment(bld, c.align, st, addr, c.base_align)
    IN  IF c.width = "enforce_bus"
        THEN enforce_alignment(bld, c.align, st1, addr, c.bus)
        ELSE st1

\* layout_info<Packet, Cfg>::base_align_ok, asserted by static_validate
base_align_ok(c) == IF c.width # "enforce_bus" THEN TRUE ELSE c.base_align >= c.bus

\* ---------------------------------------------------------------- state

VARIABLES
    bld,      \* the build: host byte order, __SIZEOF_INT128__, strict MMIO,
              \* NDEBUG, and whether a false alignment assumption faults
    layout,   \* the packet<Fields...> the view is over
    mem0,     \* the caller's buffer when the view was made
    mem,      \* the caller's buffer now
    last,     \* the last get/set: entry point, field, argument, returned value
    lastset,  \* the argument of the most recent set, <<>> before the first
    via,      \* the view: plain view, reg view or xview, and how it was made
    xcfg,     \* the Bus / BaseAlign / policies / caps of a reg view or xview
    base,     \* the address the view is over
    trace,    \* the volatile accesses and hook calls of the last get/set
    status    \* "ok", or how an alignment check ended the program

vars == << bld, layout, mem0, mem, last, lastset, via, xcfg, base, trace, status >>

\* ------------------------------------------------------ inputs of a run

Hosts == {"little", "big"}
Endians == {"native", "little", "big"}

\* a 64-bit value from its bytes, least significant first
FromBytes(bs) == UNION { ByteShl(bs[k], k - 1) : k \in 1 .. Len(bs) }

\* the 64-bit arguments given to set
Values ==
    { {}, U64, {10}, FromBytes(<<68, 51, 34, 17, 165, 90, 60, 195>>) }

\* <<pad_bits<lead>, int_field<"x", ...>>>, the pad left out when lead = 0
LayoutOf(lead, f) == IF lead = 0 THEN << f >> ELSE << pad_bits(lead), f >>

\* the bounds address space of a run: the largest layout plus two guard bytes
MemBytes == ((MaxLead + MaxBits + 7) \div 8) + 2

\* the buffer contents a run starts from
MemPatterns ==
    { [ a \in 0 .. (MemBytes - 1) |-> 0 ],
      [ a \in 0 .. (MemBytes - 1) |-> 255 ],
      [ a \in 0 .. (MemBytes - 1) |-> (37 * a + 90) % 256 ] }

NoOp == [ op |-> "none", idx |-> 0, val |-> {}, ret |-> {} ]

\* ------------------------------------------------------ build-time checks

\* static_asserts of int_field
int_field_ok(host, F) ==
    /\ F.bits >= 1 /\ F.bits <= MaxBits
    /\ (F.bits % 8 = 0) \/ is_native_endian(host, F.endian)

\* static_assert of get_impl / set_impl on the bitfield path
endian_access_ok(host, fields, I) ==
    IsScalar(offsets_bits(fields, I) % 8, fields[I].bits)
    \/ is_native_endian(host, fields[I].endian)

\* ------------------------------------------------------ plain view actions

IntFieldsOf(fields) == { i \in 1 .. Len(fields) : fields[i].kind = "int_bits" }

ViewLayouts(host) ==
    { LayoutOf(lead, int_field("x", bits, sg, en)) :
        lead \in 0 .. MaxLead, bits \in 1 .. MaxBits, sg \in BOOLEAN, en \in {"native"} }
    \cup
    { L \in { LayoutOf(lead, int_field("x", bits, sg, en)) :
                lead \in 0 .. MaxLead, bits \in {8, 16, 32, 64}, sg \in BOOLEAN,
                en \in {"little", "big"} } :
        /\ int_field_ok(host, L[Len(L)])
        /\ endian_access_ok(host, L, Len(L)) }

InitView ==
    /\ bld \in [ host : Hosts, int128 : BOOLEAN, strict : {FALSE},
                  ndebug : {FALSE}, ub_faults : {FALSE} ]
    /\ layout \in ViewLayouts(bld.host)
    /\ mem0 \in MemPatterns
    /\ mem = mem0
    /\ last = NoOp
    /\ lastset = << >>
    /\ via = [ kind |-> "view", checked |-> FALSE ]
    /\ xcfg = cfg(4, 4, "native", "assert_", width_all, width_all)
    /\ base = 0
    /\ trace = << >>
    /\ status = "ok"

\* view::set_i<I>(v)
ViewSet(I, v) ==
    /\ via.kind = "view"
    /\ mem' = set_impl(bld, layout, I, mem, 0, v)
    /\ last' = [ op |-> "set", idx |-> I, val |-> v, ret |-> {} ]
    /\ lastset' = << I, v >>
    /\ UNCHANGED << bld, layout, mem0, via, xcfg, base, trace, status >>

\* view::get_i<I>()
ViewGet(I) ==
    /\ via.kind = "view"
    /\ last' = [ op |-> "get", idx |-> I, val |-> {},
                 ret |-> get_impl(bld, layout, I, mem, 0) ]
    /\ UNCHANGED << bld, layout, mem0, mem, lastset, via, xcfg, base, trace, status >>

NextView ==
    \/ \E I \in IntFieldsOf(layout), v \in Values : ViewSet(I, v)
    \/ \E I \in IntFieldsOf(layout) : ViewGet(I)

SpecView == InitView /\ [][NextView]_vars

\* --------------------------------------------- claims about the plain view

\* v mod 2^bits, sign-extended from bit (bits-1) to 64 bits when signed,
\* zero-extended when unsigned
Expected(v, bits, signed) ==
    LET t == { i \in v : i < bits }
    IN  IF signed /\ (bits - 1) \in t THEN t \cup { i \in U64 : i >= bits } ELSE t

\* bit k of the buffer: bit (k mod 8) of byte (k div 8)
MemBit(buf, k) == Bit(ByteBits(buf[k \div 8]), k % 8)

\* the bit positions [offset, offset+bits) of field I
FieldBitsOf(fields, I) ==
    offsets_bits(fields, I) .. (offsets_bits(fields, I) + fields[I].bits - 1)

OnBitfieldPath(fields, I) ==
    ~IsScalar(offsets_bits(fields, I) % 8, fields[I].bits)

\* C1: a get that follows a set(v) on the same Integer field of a plain view
\* returns v mod 2^bits, sign- or zero-extended to 64 bits per the field,
\* for every width 1..64, bit offset, signedness, byte order and host.
C1_RoundTrip ==
    (last.op = "get" /\ lastset # << >> /\ lastset[1] = last.idx)
        => last.ret = Expected(lastset[2], layout[last.idx].bits,
                               layout[last.idx].signed)

\* an 11-bit signed bitfield at a non-zero shift was set to 0x400 and read
\* back as -1024
C1_Witness ==
    /\ last.op = "get"
    /\ lastset = << last.idx, {10} >>
    /\ layout[last.idx].bits = 11
    /\ layout[last.idx].signed
    /\ offsets_bits(layout, last.idx) % 8 = 5
    /\ last.ret = 10 .. 63

\* C2: a set on a bitfield-path field changes no buffer bit outside
\* [offset, offset+bits): the other bits of the touched bytes and every byte
\* outside the window keep the value they had.
C2_FramePreserved ==
    (last.op = "set" /\ OnBitfieldPath(layout, last.idx)
     /\ IntFieldsOf(layout) = {last.idx})
        => \A k \in (0 .. (8 * MemBytes - 1)) \ FieldBitsOf(layout, last.idx) :
              MemBit(mem, k) = MemBit(mem0, k)

\* a 64-bit field at shift 7 (a 9-byte window) over an all-ones buffer was set
\* to zero: the field bits are cleared, bit 0..6 of the first window byte and
\* bit 7 of the last are still set
C2_Witness ==
    /\ last.op = "set"
    /\ last.val = {}
    /\ layout[last.idx].bits = 64
    /\ offsets_bits(layout, last.idx) = 7
    /\ mem0[0] = 255
    /\ mem[0] = 127 /\ mem[4] = 0 /\ mem[8] = 128 /\ mem[9] = 255

\* ------------------------------------------------------ MMIO view actions

\* the address space of an MMIO run
MmioBytes == 24

MmioPattern == [ a \in 0 .. (MmioBytes - 1) |-> (37 * a + 90) % 256 ]

\* what a finished get/set leaves in the state
Finish(r, l) ==
    /\ mem' = r.mem
    /\ trace' = r.tr
    /\ status' = r.status
    /\ last' = l

\* reg::view::set_i<I>(v)
RegSet(I, v) ==
    /\ via.kind = "reg" /\ status = "ok"
    /\ Finish(vset_impl(bld, layout, I, xcfg.bus, xcfg.base_align, Start(mem), base, v),
              [ op |-> "set", idx |-> I, val |-> v, ret |-> {} ])
    /\ lastset' = << I, v >>
    /\ UNCHANGED << bld, layout, mem0, via, xcfg, base >>

\* reg::view::get_i<I>()
RegGet(I) ==
    /\ via.kind = "reg" /\ status = "ok"
    /\ LET r == vget_impl(bld, layout, I, xcfg.bus, xcfg.base_align, Start(mem), base)
       IN  Finish(r.st, [ op |-> "get", idx |-> I, val |-> {}, ret |-> r.val ])
    /\ UNCHANGED << bld, layout, mem0, lastset, via, xcfg, base >>

\* reg::xview::set_i<I>(v)
XSet(I, v) ==
    /\ via.kind = "xview" /\ status = "ok"
    /\ Finish(xset_impl(bld, layout, I, xcfg, Start(mem), base, v),
              [ op |-> "set", idx |-> I, val |-> v, ret |-> {} ])
    /\ lastset' = << I, v >>
    /\ UNCHANGED << bld, layout, mem0, via, xcfg, base >>

\* reg::xview::get_i<I>()
XGet(I) ==
    /\ via.kind = "xview" /\ status = "ok"
    /\ LET r == xget_impl(bld, layout, I, xcfg, Start(mem), base)
       IN  Finish(r.st, [ op |-> "get", idx |-> I, val |-> {}, ret |-> r.val ])
    /\ UNCHANGED << bld, layout, mem0, lastset, via, xcfg, base >>

\* the state after the view was made: by make_view / make_xview (checked) or
\* by the constructor from a pointer (no check)
MadeStatus(b, v, c, addr) ==
    IF ~v.checked THEN "ok"
    ELSE IF v.kind = "reg" THEN make_view(b, c.base_align, Start(MmioPattern), addr).status
    ELSE make_xview(b, c, Start(MmioPattern), addr).status

\* an MMIO run over the layouts Ls, configurations Cs, base addresses As, builds Bs
InitMmio(Bs, Ls, Cs, As) ==
    /\ bld \in Bs
    /\ layout \in { L \in Ls : /\ int_field_ok(bld.host, L[Len(L)])
                               /\ endian_access_ok(bld.host, L, Len(L)) }
    /\ via \in [ kind : {"reg", "xview"}, checked : BOOLEAN ]
    /\ xcfg \in { c \in Cs : IF via.kind = "reg"
                             THEN /\ c.width = "native" /\ c.align = "unchecked"
                                  /\ c.read_mask = width_all /\ c.write_mask = width_all
                             ELSE base_align_ok(c) }
    /\ base \in { a \in As : via.checked \/ a # 0 }
    /\ mem0 = MmioPattern
    /\ mem = mem0
    /\ last = NoOp
    /\ lastset = << >>
    /\ trace = << >>
    /\ status = MadeStatus(bld, via, xcfg, base)

\* ------------------------------------------------------ barrier runs

Builds(strictness, ndebugs) ==
    { [ host |-> h, int128 |-> TRUE, strict |-> s, ndebug |-> q, ub_faults |-> ~q ] :
        h \in Hosts, s \in strictness, q \in ndebugs }

WidthPolicies == {"native", "enforce_bus", "prefer_bus", "minimal_ok"}
AlignPolicies == {"unchecked", "assert_", "trap", "assume"}

Cfgs(buses, aligns, masks) ==
    { cfg(b, a, wp, ap, m, m) :
        b \in buses, a \in {1, 2, 4, 8}, wp \in WidthPolicies, ap \in aligns,
        m \in masks }

\* the fields of the barrier-placement layout, and byte-aligned scalars that
\* are misaligned for their size or span bus words
BarrierLayouts ==
    { LayoutOf(0,  int_field("s16_le", 16, FALSE, "little")),
      LayoutOf(16, int_field("bf_one", 10, FALSE, "native")),
      LayoutOf(28, int_field("bf_cross", 8, FALSE, "native")),
      LayoutOf(40, int_field("guard", 8, FALSE, "native")),
      LayoutOf(24, int_field("x", 16, FALSE, "big")),
      LayoutOf(8,  int_field("y", 32, FALSE, "native")) }

BarrierValues == { FromBytes(<<68, 51, 34, 17, 165, 90, 60, 195>>) }

InitBarrier ==
    InitMmio(Builds(BOOLEAN, BOOLEAN), BarrierLayouts,
             { c \in Cfgs({2, 4}, AlignPolicies, {width_all, {4}, {1, 2}}) :
                 c.base_align \in {1, c.bus} }, {0, 1})

NextBarrier ==
    \/ \E I \in IntFieldsOf(layout), v \in BarrierValues : RegSet(I, v)
    \/ \E I \in IntFieldsOf(layout) : RegGet(I)
    \/ \E I \in IntFieldsOf(layout), v \in BarrierValues : XSet(I, v)
    \/ \E I \in IntFieldsOf(layout) : XGet(I)

SpecBarrier == InitBarrier /\ [][NextBarrier]_vars

\* positions of the trace holding events of the given kinds
Positions(tr, kinds) == { i \in 1 .. Len(tr) : tr[i].k \in kinds }

HookCount(tr) == Cardinality(Positions(tr, {"hook"}))

\* the last operation was an MMIO get/set (through a reg view or an xview)
MmioOp(op) == via.kind \in {"reg", "xview"} /\ last.op = op

\* C3: every MMIO set on an Integer field that returns, through a reg view or
\* an xview and on any of its paths, has called the barrier hook exactly
\* twice; every MMIO get has called it zero times.
C3_HookCounts ==
    /\ (MmioOp("set") /\ status = "ok") => HookCount(trace) = 2
    /\ MmioOp("get") => HookCount(trace) = 0


\* a set through an xview that read and rewrote bus words between its two hooks
C3_Witness ==
    /\ MmioOp("set") /\ via.kind = "xview" /\ status = "ok"
    /\ xcfg.width = "enforce_bus" /\ layout[last.idx].name = "x"
    /\ HookCount(trace) = 2
    /\ Cardinality(Positions(trace, {"load"})) = 2
    /\ Cardinality(Positions(trace, {"store"})) = 2

\* the position of the n-th hook call of the trace, Len + 1 when there is none
HookAt(tr, n) ==
    LET later == { i \in Positions(tr, {"hook"}) :
                     Cardinality({ j \in Positions(tr, {"hook"}) : j < i }) >= n - 1 }
    IN  IF later = {} THEN Len(tr) + 1
        ELSE CHOOSE i \in later : \A j \in later : i <= j

\* the set took the one-bus-word read-modify-write path of a bitfield
OneWordRmw(fields, I, bus_bytes) ==
    /\ OnBitfieldPath(fields, I)
    /\ fits_one(offsets_bits(fields, I), fields[I].bits, bus_bytes)

\* C4 as stated: within every MMIO set that returns, no volatile load or
\* store happens before the first hook call or after the second.
C4_AllInsideHooks ==
    (MmioOp("set") /\ status = "ok") =>
        \A i \in Positions(trace, {"load", "store"}) :
            HookAt(trace, 1) < i /\ i < HookAt(trace, 2)

\* C4: within every MMIO set every volatile store happens after the first
\* hook call and before the second, and no volatile access follows the
\* second; a volatile access before the first hook call is a load, and
\* happens only on the one-bus-word read-modify-write path of a bitfield.
C4_StoresInsideHooks ==
    MmioOp("set") =>
        /\ \A i \in Positions(trace, {"store"}) :
              HookAt(trace, 1) < i /\ i < HookAt(trace, 2)
        /\ \A i \in Positions(trace, {"load"}) :
              /\ i < HookAt(trace, 2)
              /\ i < HookAt(trace, 1) => OneWordRmw(layout, last.idx, xcfg.bus)
        /\ (status = "ok" /\ ~OneWordRmw(layout, last.idx, xcfg.bus))
              => trace[1].k = "hook" /\ trace[Len(trace)].k = "hook"

\* a one-word read-modify-write through a reg view: the bus-word load, the
\* first hook, the bus-word store, the second hook
C4_Witness ==
    /\ MmioOp("set") /\ via.kind = "reg" /\ status = "ok"
    /\ OneWordRmw(layout, last.idx, xcfg.bus)
    /\ xcfg.bus = 4
    /\ [ i \in 1 .. Len(trace) |-> trace[i].k ]
         = << "load", "load", "load", "load", "hook",
              "store", "store", "store", "store", "hook" >>


\* ------------------------------------------------------ cross-word runs

\* the bus words, counted from the view's base, that hold bytes of field I
WordsOf(fields, I, bus_bytes) ==
    (offsets_bits(fields, I) \div (8 * bus_bytes))
        .. ((offsets_bits(fields, I) + fields[I].bits - 1) \div (8 * bus_bytes))

\* byte-aligned scalars of 2, 4 and 8 bytes at offsets that put them across a
\* bus-word boundary of some bus
CrossLayouts ==
    { LayoutOf(8 * p[1], int_field("x", 8 * p[2], k[1], k[2])) :
        p \in { <<1, 2>>, <<3, 2>>, <<2, 4>>, <<6, 4>>, <<0, 8>>, <<4, 8>> },
        k \in { <<FALSE, "native">>, <<TRUE, "big">>, <<FALSE, "little">> } }

CrossValues == { {10}, FromBytes(<<68, 51, 34, 17, 165, 90, 60, 195>>) }

InitCross ==
    /\ InitMmio(Builds(BOOLEAN, {FALSE}), CrossLayouts,
                { c \in Cfgs({1, 2, 4, 8}, {"unchecked", "trap"}, {width_all, {4}}) :
                    c.base_align \in {1, c.bus} },
                {0})
    /\ Cardinality(WordsOf(layout, Len(layout), xcfg.bus)) >= 2

NextCross ==
    \/ \E I \in IntFieldsOf(layout), v \in CrossValues : RegSet(I, v)
    \/ \E I \in IntFieldsOf(layout) : RegGet(I)
    \/ \E I \in IntFieldsOf(layout), v \in CrossValues : XSet(I, v)
    \/ \E I \in IntFieldsOf(layout) : XGet(I)

SpecCross == InitCross /\ [][NextCross]_vars

\* the addresses of the bytes of field I
FieldBytesOf(fields, I, addr) ==
    (addr + offsets_bits(fields, I) \div 8)
        .. (addr + (offsets_bits(fields, I) + fields[I].bits - 1) \div 8)

\* the addresses of the bytes of the bus words that hold bytes of field I
WordBytesOf(fields, I, bus_bytes, addr) ==
    { addr + w * bus_bytes + i : w \in WordsOf(fields, I, bus_bytes),
                                 i \in 0 .. (bus_bytes - 1) }

SpansTwoWords(fields, I, bus_bytes) ==
    /\ IsScalar(offsets_bits(fields, I) % 8, fields[I].bits)
    /\ Cardinality(WordsOf(fields, I, bus_bytes)) = 2

\* C5: after an MMIO set on a byte-aligned scalar field that spans two bus
\* words, every byte of the two words outside the field holds the value it
\* had, the field's bytes hold the value written in the field's byte order,
\* and a following get of the field returns the value written.
C5_CrossWordSet ==
    /\ (MmioOp("set") /\ status = "ok" /\ SpansTwoWords(layout, last.idx, xcfg.bus))
          => /\ \A a \in WordBytesOf(layout, last.idx, xcfg.bus, base)
                        \ FieldBytesOf(layout, last.idx, base) : mem[a] = mem0[a]
             /\ mem = set_impl(bld, layout, last.idx, mem0, base, last.val)
    /\ (MmioOp("get") /\ status = "ok" /\ lastset # << >> /\ lastset[1] = last.idx
          /\ SpansTwoWords(layout, last.idx, xcfg.bus))
          => last.ret = Expected(lastset[2], layout[last.idx].bits,
                                 layout[last.idx].signed)

\* a big-endian 16-bit field at byte 3 of a 32-bit bus, written and read back
\* through an enforce_bus xview: two bus-word loads, bytes 3 and 4 rewritten
C5_Witness ==
    /\ MmioOp("get") /\ via.kind = "xview" /\ status = "ok"
    /\ xcfg.bus = 4 /\ xcfg.width = "enforce_bus"
    /\ SpansTwoWords(layout, last.idx, xcfg.bus)
    /\ layout[last.idx].bits = 16 /\ layout[last.idx].endian = "big"
    /\ offsets_bits(layout, last.idx) = 24
    /\ lastset = << last.idx, FromBytes(<<68, 51, 34, 17, 165, 90, 60, 195>>) >>
    /\ last.ret = FromBytes(<<68, 51>>)
    /\ mem[3] = 51 /\ mem[4] = 68
    /\ mem[2] = mem0[2] /\ mem[5] = mem0[5] /\ mem0[3] # 51
    /\ trace = << Ev("load", 0, 4), Ev("load", 4, 4) >>


\* ------------------------------------------------------ building a layout

\* F::has_name
has_name(F) == F.kind # "pad"

\* detail::count_name<Name, Fields...> over fields[from .. Len]
count_name(name, fields, from) ==
    Cardinality({ i \in from .. Len(fields) : has_name(fields[i]) /\ fields[i].name = name })

\* detail::all_unique_names<Fields...>
all_unique_names(fields) ==
    \A i \in 1 .. Len(fields) :
        ~has_name(fields[i]) \/ count_name(fields[i].name, fields, i + 1) = 0

\* packet::validate(): the loop body is empty and the function returns true
validate(fields) == TRUE

\* the static_asserts in the body of a field type
field_ok(host, F) ==
    CASE F.kind = "int_bits" -> int_field_ok(host, F)
      [] F.kind = "pad"      -> F.bits >= 1
      [] OTHER               -> TRUE

\* packet<Fields...> is instantiated without a failed static_assert; a
\* subpacket_field names a packet type, which is instantiated first
RECURSIVE packet_ok(_, _)
packet_ok(host, fields) ==
    /\ \A i \in 1 .. Len(fields) :
          /\ field_ok(host, fields[i])
          /\ fields[i].kind = "subpacket" => packet_ok(host, fields[i].sub)
    /\ all_unique_names(fields)
    /\ validate(fields)

\* detail::find_field_index<Name, Fields...>: the first field of that name,
\* numbered from 1; 0 stands for the source's -1
find_field_index(name, fields) ==
    LET hits == { i \in 1 .. Len(fields) : has_name(fields[i]) /\ fields[i].name = name }
    IN  IF hits = {} THEN 0 ELSE CHOOSE i \in hits : \A j \in hits : i <= j

\* ---------------------------------------------- instantiating a get or set

\* the pad check is left out
not_pad_unchecked(F) == TRUE

\* static_assert(F::kind != field_kind::pad, ...)
not_pad(F) == F.kind # "pad"

\* what get_impl / vget_impl / xget_impl<Packet, Mutable, I> compiles to
get_impl_inst(host, fields, I) ==
    CASE fields[I].kind = "int_bits" ->
            IF endian_access_ok(host, fields, I) THEN "value" ELSE "static_assert"
      [] fields[I].kind = "bytes"     -> "bytes_ref"
      [] fields[I].kind = "subpacket" -> "subview"
      [] OTHER                        -> "void"

\* what set_impl / vset_impl / xset_impl<Packet, Mutable, I, V> compiles to
set_impl_inst(host, fields, Mutable, I) ==
    IF ~Mutable THEN "static_assert"
    ELSE CASE fields[I].kind = "int_bits" ->
                 IF endian_access_ok(host, fields, I) THEN "store" ELSE "static_assert"
           [] fields[I].kind = "bytes"     -> "static_assert"
           [] fields[I].kind = "subpacket" -> "static_assert"
           [] OTHER                        -> "no-op"

\* view_base / reg_view_base / xview_base :: get<Name>, set<Name>, get_i<I>,
\* set_i<I>: the static_asserts are the same in the three classes; the reg
\* view and the xview make the nested view themselves
access_inst(kind, host, fields, Mutable, entry, op, key) ==
    LET idx == IF entry = "name" THEN find_field_index(key, fields) ELSE key
    IN  IF entry = "name" /\ idx = 0 THEN "static_assert"
        ELSE IF entry = "index" /\ ~(idx <= Len(fields)) THEN "static_assert"
        ELSE IF ~not_pad(fields[idx]) THEN "static_assert"
        ELSE IF op = "get"
        THEN IF kind \in {"reg", "xview"} /\ fields[idx].kind = "subpacket"
             THEN "subview"
             ELSE get_impl_inst(host, fields, idx)
        ELSE set_impl_inst(host, fields, Mutable, idx)


\* ------------------------------------------------------ build runs

\* packet<u8<"a">, u4<"b">>: 12 bits; packet<u8<"a">>: 8 bits
Inner12 == << int_field("a", 8, FALSE, "native"), int_field("b", 4, FALSE, "native") >>
Inner8 == << int_field("a", 8, FALSE, "native") >>

\* the field types layouts are built from
FieldPool ==
    { int_field("b0", 1, FALSE, "native"),
      int_field("a", 8, FALSE, "native"),
      int_field("x24", 24, FALSE, "little"),
      int_field("be", 16, FALSE, "big"),
      int_field("n", 12, TRUE, "big"),
      bytes_field("payload", 4),
      pad_bits(4),
      pad_bits(8),
      subpacket_field(Inner12, "sub"),
      subpacket_field(Inner8, "hdr") }

\* every packet of one or two fields of the pool, and the three-field packets
\* of the layout tests
Candidates ==
    { << f >> : f \in FieldPool }
    \cup { << f, g >> : f \in FieldPool, g \in FieldPool }
    \cup { << int_field("pre", 8, FALSE, "native"), subpacket_field(Inner12, "sub"),
              int_field("post", 8, FALSE, "native") >>,
           << int_field("b0", 1, FALSE, "native"), subpacket_field(Inner8, "sub"),
              int_field("tail", 7, FALSE, "native") >>,
           << int_field("flag", 1, FALSE, "native"), pad_bits(7),
              bytes_field("payload", 4) >> }

ViewKinds == {"view", "reg", "xview"}

\* the names a get<Name> / set<Name> is instantiated with
NamesOf(fields) == { fields[i].name : i \in 1 .. Len(fields) } \cup {"nope"}

InitBuild ==
    /\ bld \in [ host : Hosts, int128 : {TRUE}, strict : {FALSE},
                  ndebug : {FALSE}, ub_faults : {FALSE} ]
    /\ layout = << >>
    /\ mem0 = << >>
    /\ mem = << >>
    /\ last = NoOp
    /\ lastset = << >>
    /\ via = [ kind |-> "none", checked |-> FALSE ]
    /\ xcfg = cfg(4, 4, "native", "assert_", width_all, width_all)
    /\ base = 0
    /\ trace = << >>
    /\ status = "ok"

\* the translation unit names packet<Fields...>
BuildPacket(fields) ==
    /\ last.op = "none"
    /\ layout' = fields
    /\ status' = IF packet_ok(bld.host, fields) THEN "ok" ELSE "static_assert"
    /\ last' = [ op |-> "build", idx |-> 0, val |-> {}, ret |-> {} ]
    /\ UNCHANGED << bld, mem0, mem, lastset, via, xcfg, base, trace >>

\* the translation unit names a get / set / get_i / set_i of a view over the
\* packet; key is the Name or the index I (from 1; Len + 1 is out of range)
Access(kind, Mutable, entry, op, key) ==
    /\ last.op # "none" /\ status = "ok"
    /\ LET r == access_inst(kind, bld.host, layout, Mutable, entry, op, key)
       IN  /\ last' = [ op |-> op, idx |-> key,
                        val |-> [ view |-> kind, mutable |-> Mutable, entry |-> entry ],
                        ret |-> r ]
           /\ status' = IF r = "static_assert" THEN "static_assert" ELSE "ok"
    /\ UNCHANGED << bld, layout, mem0, mem, lastset, via, xcfg, base, trace >>

NextBuild ==
    \/ \E fields \in Candidates : BuildPacket(fields)
    \/ \E kind \in ViewKinds, Mutable \in BOOLEAN, op \in {"get", "set"} :
          \/ \E key \in NamesOf(layout) : Access(kind, Mutable, "name", op, key)
          \/ \E key \in 1 .. (Len(layout) + 1) : Access(kind, Mutable, "index", op, key)

SpecBuild == InitBuild /\ [][NextBuild]_vars

\* the layout was named and the build went through
Built == last.op = "build" /\ status = "ok"
Rejected == last.op = "build" /\ status = "static_assert"

MisalignedSpan(fields) ==
    \E i \in 1 .. Len(fields) :
        fields[i].kind \in {"bytes", "subpacket"} /\ offsets_bits(fields, i) % 8 # 0

\* C6: building a layout in which a ByteSpan or Nested field begins at a bit
\* offset that is not a multiple of 8 fails at layout build time.
C6_MisalignedSpanRejected ==
    (last.op = "build" /\ MisalignedSpan(layout)) => status = "static_assert"

RaggedNested(fields) ==
    \E i \in 1 .. Len(fields) :
        fields[i].kind = "subpacket" /\ total_bits(fields[i].sub) % 8 # 0

\* C7: building a layout with a Nested field whose nested layout's total_bits
\* is not a multiple of 8 fails at layout build time.
C7_RaggedNestedRejected ==
    (last.op = "build" /\ RaggedNested(layout)) => status = "static_assert"

EndianOnNonScalar(fields) ==
    \E i \in 1 .. Len(fields) :
        /\ fields[i].kind = "int_bits"
        /\ fields[i].endian \in {"little", "big"}
        /\ ~IsScalar(offsets_bits(fields, i) % 8, fields[i].bits)

\* C8: an Integer field declaring Little or Big byte order while its width is
\* not 8, 16, 32 or 64 bits, or while its bit offset is not a multiple of 8,
\* is rejected at layout build time, on hosts of either byte order.
C8_EndianOnNonScalarRejected ==
    (last.op = "build" /\ EndianOnNonScalar(layout)) => status = "static_assert"

\* the access named by the last operation is ill-formed
IllFormed ==
    LET idx == IF last.val.entry = "name" THEN find_field_index(last.idx, layout)
               ELSE last.idx
    IN  \/ last.val.entry = "name" /\ idx = 0
        \/ last.val.entry = "index" /\ idx > Len(layout)
        \/ /\ idx \in 1 .. Len(layout)
           /\ \/ layout[idx].kind = "pad"
              \/ last.op = "set" /\ layout[idx].kind \in {"bytes", "subpacket"}
              \/ last.op = "set" /\ ~last.val.mutable

\* C9: every ill-formed access (a name that is not in the layout, an index
\* >= the field count, a Padding field, set on a ByteSpan or Nested field,
\* set through a read-only view) is rejected at build time, by name and by
\* index, through the plain view, the reg view and the xview; none builds
\* into a no-op or a default value.
C9_IllFormedRejected ==
    (last.op \in {"get", "set"} /\ IllFormed)
        => last.ret = "static_assert" /\ status = "static_assert"

\* set_i on a Padding field through a mutable xview: rejected
C9_Witness ==
    /\ last.op = "set" /\ last.val = [ view |-> "xview", mutable |-> TRUE, entry |-> "index" ]
    /\ last.idx \in 1 .. Len(layout)
    /\ layout[last.idx].kind = "pad"
    /\ IllFormed
    /\ last.ret = "static_assert"


\* ------------------------------------------------------ width selection runs

\* every capability mask
Masks == SUBSET width_all

FieldBytes == {1, 2, 4, 8}
BusBytes == {1, 2, 4, 8}

InitWidth ==
    /\ bld \in [ host : {"little"}, int128 : {TRUE}, strict : {FALSE},
                  ndebug : {FALSE}, ub_faults : {FALSE} ]
    /\ layout = << >>
    /\ mem0 = << >>
    /\ mem = << >>
    /\ last = NoOp
    /\ lastset = << >>
    /\ via = [ kind |-> "none", checked |-> FALSE ]
    /\ xcfg \in { cfg(b, b, wp, "unchecked", rm, wm) :
                    b \in BusBytes, wp \in WidthPolicies, rm \in Masks, wm \in Masks }
    /\ base = 0
    /\ trace = << >>
    /\ status = "ok"

\* xget_impl: chosen = choose_width<Cfg::width>(N, byte_off, Bus::bytes, Cfg::read_mask)
ChooseRead(N, byte_off) ==
    /\ last' = [ op |-> "choose_read", idx |-> N, val |-> xcfg.read_mask,
                 ret |-> choose_width(xcfg.width, N, byte_off, xcfg.bus, xcfg.read_mask) ]
    /\ UNCHANGED << bld, layout, mem0, mem, lastset, via, xcfg, base, trace, status >>

\* xset_impl: chosen = choose_width<Cfg::width>(N, byte_off, Bus::bytes, Cfg::write_mask)
ChooseWrite(N, byte_off) ==
    /\ last' = [ op |-> "choose_write", idx |-> N, val |-> xcfg.write_mask,
                 ret |-> choose_width(xcfg.width, N, byte_off, xcfg.bus, xcfg.write_mask) ]
    /\ UNCHANGED << bld, layout, mem0, mem, lastset, via, xcfg, base, trace, status >>

NextWidth ==
    \/ \E N \in FieldBytes, byte_off \in 0 .. 3 : ChooseRead(N, byte_off)
    \/ \E N \in FieldBytes, byte_off \in 0 .. 3 : ChooseWrite(N, byte_off)

SpecWidth == InitWidth /\ [][NextWidth]_vars

\* C10: for every width policy, field length N in {1,2,4,8}, bus word size in
\* {1,2,4,8} and capability mask, the width chosen is a power of two, is at
\* most the bus word size, and is permitted by the mask used for the access.
C10_ChosenWidthLegal ==
    last.op \in {"choose_read", "choose_write"}
        => /\ is_pow2(last.ret)
           /\ last.ret <= xcfg.bus
           /\ last.ret \in last.val

\* C10 with every capability permitted: the width chosen is at most the bus
\* word size.
C10_ChosenWithinBus ==
    (last.op \in {"choose_read", "choose_write"} /\ last.val = width_all)
        => last.ret <= xcfg.bus

\* ------------------------------------------------------ transaction runs

\* byte-aligned scalars of 1, 2, 4 and 8 bytes: naturally aligned, at odd
\* byte offsets, and across a bus-word boundary
TxnLayouts ==
    { LayoutOf(8 * p[1], int_field("x", 8 * p[2], FALSE, "native")) :
        p \in { <<0, 1>>, <<1, 1>>, <<0, 2>>, <<2, 2>>, <<3, 2>>,
                <<0, 4>>, <<1, 4>>, <<0, 8>> } }

TxnValues == { FromBytes(<<68, 51, 34, 17, 165, 90, 60, 195>>) }

InitTxn ==
    InitMmio(Builds(BOOLEAN, {FALSE}), TxnLayouts,
             { c \in Cfgs({2, 4, 8}, AlignPolicies, {width_all, {2}, {4}}) :
                 c.base_align \in {1, c.bus} }, {0})

NextTxn ==
    \/ \E I \in IntFieldsOf(layout), v \in TxnValues : RegSet(I, v)
    \/ \E I \in IntFieldsOf(layout) : RegGet(I)
    \/ \E I \in IntFieldsOf(layout), v \in TxnValues : XSet(I, v)
    \/ \E I \in IntFieldsOf(layout) : XGet(I)

SpecTxn == InitTxn /\ [][NextTxn]_vars

\* the volatile loads and stores of a trace, the hook calls left out
Accesses(tr) == SelectSeq(tr, LAMBDA e : e.k # "hook")

\* the last operation was a get or set of a byte-aligned scalar through an xview
XScalarOp ==
    /\ via.kind = "xview" /\ last.op \in {"get", "set"}
    /\ IsScalar(offsets_bits(layout, last.idx) % 8, layout[last.idx].bits)

\* N, the byte length of the field of the last operation, and its byte offset
FieldLen == layout[last.idx].bits \div 8
FieldOff == offsets_bits(layout, last.idx) \div 8

\* w, the width the policy chose for the last operation (read mask for a get,
\* write mask for a set)
Chosen ==
    choose_width(xcfg.width, FieldLen, FieldOff, xcfg.bus,
                 IF last.op = "get" THEN xcfg.read_mask ELSE xcfg.write_mask)

\* C11 as stated, for a typed build and a naturally aligned field: when the
\* chosen width w equals the field length N, a get is exactly one load of
\* width N at the field's address and a set exactly one store of width N
\* there, with no load, under every width policy.
C11_ExactWidthOneTransaction ==
    (/\ XScalarOp /\ status = "ok" /\ ~bld.strict
     /\ Chosen = FieldLen
     /\ xcfg.base_align >= FieldLen /\ (base + FieldOff) % FieldLen = 0)
        => Accesses(trace) =
              << Ev(IF last.op = "get" THEN "load" ELSE "store",
                    base + FieldOff, FieldLen) >>

\* C12 as stated, for a typed build with bus-aligned words and a field that
\* lies inside one aligned unit of the chosen width: when the chosen width w
\* is greater than the field length N, a set is one load and one store of
\* width w at the same address, and every byte outside the field keeps its
\* value.
C12_PromotedSingleRmw ==
    (/\ XScalarOp /\ last.op = "set" /\ status = "ok" /\ ~bld.strict
     /\ Chosen > FieldLen
     /\ xcfg.base_align >= xcfg.bus
     /\ (FieldOff % Chosen) + FieldLen <= Chosen)
        => /\ \E a \in 0 .. (MmioBytes - 1) :
                Accesses(trace) = << Ev("load", a, Chosen), Ev("store", a, Chosen) >>
           /\ \A a \in DOMAIN mem \ FieldBytesOf(layout, last.idx, base) :
                mem[a] = mem0[a]

\* C13 as stated, for a typed build: when the field length N exceeds the
\* chosen width w, a get or set is exactly ceil(N/w) transactions of width w,
\* the i-th at address base + byte_offset + i * w.
C13_SplitTransactions ==
    (/\ XScalarOp /\ status = "ok" /\ ~bld.strict
     /\ Chosen # 0 /\ FieldLen > Chosen)
        => LET acc == Accesses(trace)
               n   == (FieldLen + Chosen - 1) \div Chosen
           IN  /\ Len(acc) = n
               /\ \A i \in 1 .. Len(acc) :
                    acc[i] = Ev(IF last.op = "get" THEN "load" ELSE "store",
                                base + FieldOff + (i - 1) * Chosen, Chosen)

\* C14: under the enforce_bus policy, strict mode off, every memory
\* transaction of a get or set of a byte-aligned scalar field is exactly one
\* bus word wide.
C14_EnforceBusWidth ==
    (/\ XScalarOp /\ status = "ok" /\ ~bld.strict
     /\ xcfg.width = "enforce_bus")
        => \A i \in Positions(trace, {"load", "store"}) : trace[i].w = xcfg.bus

\* C18 as stated, on the exact-width path of the native policy: under the
\* assert_ and the trap alignment policies (assertions compiled in), a get or
\* set whose width-N transaction would be at an address that is not a
\* multiple of N ends in an assertion failure or a trap.
C18_MisalignedEndsRun ==
    (/\ XScalarOp
     /\ xcfg.align \in {"assert_", "trap"} /\ ~bld.ndebug
     /\ xcfg.width = "native" /\ Chosen = FieldLen
     /\ (base + FieldOff) % FieldLen # 0)
        => status \in {"assert", "trap"}

\* layout_info<Packet, Cfg>::worst_case_transactions<I>()
worst_case_transactions(fields, I, c) ==
    LET F       == fields[I]
        bit_off == offsets_bits(fields, I)
    IN  IF F.kind \in {"bytes", "subpacket", "pad"} THEN 0
        ELSE IF IsScalar(bit_off % 8, F.bits)
        THEN LET bytes == F.bits \div 8
             IN  IF c.width = "enforce_bus"
                 THEN (bytes + c.bus - 1) \div c.bus
                 ELSE LET w == choose_width(c.width, bytes, bit_off \div 8, c.bus,
                                            c.read_mask \cup c.write_mask)
                      IN  IF w = 0 THEN (bytes + c.bus - 1) \div c.bus
                          ELSE (bytes + w - 1) \div w
        ELSE 2

\* C20 as stated, for a typed build with bus-aligned words: a get of a
\* byte-aligned scalar performs at least one load and at most as many as
\* worst_case_transactions reports, ceil(N/w); a set performs at least one
\* store and at most that many.
C20_BoundedTransactions ==
    (/\ XScalarOp /\ status = "ok" /\ ~bld.strict
     /\ xcfg.base_align >= xcfg.bus)
        => LET n == Cardinality(Positions(trace, IF last.op = "get" THEN {"load"}
                                                 ELSE {"store"}))
           IN  /\ 1 <= n
               /\ n <= worst_case_transactions(layout, last.idx, xcfg)

\* ------------------------------------------------------ the native policy

\* the legal widths: permitted by the mask and at most the bus word size
LegalWidths(mask, bus_bytes) == { w \in mask : w <= bus_bytes }

\* C15: under the native policy the chosen width is the field's byte width N
\* whenever N is legal, and otherwise the smallest legal width >= N; when
\* there is no such width, no width is chosen (0).
C15_NativeChoice ==
    (last.op \in {"choose_read", "choose_write"} /\ xcfg.width = "native")
        => LET N     == last.idx
               legal == LegalWidths(last.val, xcfg.bus)
               up    == { w \in legal : w >= N }
           IN  IF N \in legal THEN last.ret = N
               ELSE IF up # {}
                    THEN last.ret = CHOOSE w \in up : \A u \in up : w <= u
                    ELSE last.ret = 0

\* ------------------------------------------------------ bitfield runs

\* bitfields inside one bus word and across bus words: bf10 of the one-word
\* tests, bf_cross of the fallback tests, a 9-byte window, a 24-bit field
BitsLayouts ==
    { LayoutOf(p[1], int_field("bf", p[2], p[3], "native")) :
        p \in { <<5, 10, FALSE>>, <<7, 10, FALSE>>, <<28, 8, FALSE>>,
                <<3, 3, TRUE>>, <<0, 12, TRUE>>, <<1, 64, FALSE>>,
                <<30, 40, FALSE>>, <<0, 24, FALSE>> } }

BitsValues == { {0, 2, 9}, FromBytes(<<68, 51, 34, 17, 165, 90, 60, 195>>) }

BitsBuilds ==
    { [ b EXCEPT !.int128 = i ] : b \in Builds(BOOLEAN, {FALSE}), i \in BOOLEAN }

InitBits ==
    InitMmio(BitsBuilds, BitsLayouts,
             { c \in Cfgs({1, 2, 4, 8}, AlignPolicies, {width_all}) :
                 /\ c.base_align \in {1, c.bus}
                 /\ c.width \in {"native", "enforce_bus"} }, {0, 1})

NextBits ==
    \/ \E I \in IntFieldsOf(layout), v \in BitsValues : RegSet(I, v)
    \/ \E I \in IntFieldsOf(layout) : RegGet(I)
    \/ \E I \in IntFieldsOf(layout), v \in BitsValues : XSet(I, v)
    \/ \E I \in IntFieldsOf(layout) : XGet(I)

SpecBits == InitBits /\ [][NextBits]_vars

\* the address of the bus word that holds the first bit of field I
WordAddrOf(fields, I, bus_bytes, addr) ==
    addr + (offsets_bits(fields, I) \div (8 * bus_bytes)) * bus_bytes

\* the bus word at wp is accessed by one typed bus-word transaction
TypedWord(wp) ==
    /\ via.kind = "xview" /\ ~bld.strict
    /\ xcfg.base_align >= xcfg.bus /\ wp % xcfg.bus = 0

\* C16 as stated: a set on a bitfield inside one bus word (strict mode off)
\* is exactly one load of the containing bus word followed by exactly one
\* store of that word.
C16_SingleWordLoadStore ==
    (/\ MmioOp("set") /\ status = "ok" /\ ~bld.strict
     /\ OneWordRmw(layout, last.idx, xcfg.bus))
        => LET wp == WordAddrOf(layout, last.idx, xcfg.bus, base)
           IN  Accesses(trace) = << Ev("load", wp, xcfg.bus), Ev("store", wp, xcfg.bus) >>

\* C16: a set on a bitfield inside one bus word reads every byte of the
\* containing bus word once, then writes every byte of that word once, and
\* touches nothing else; all bits outside the field keep their value and the
\* field holds the value written. The read is one bus-word load and the write
\* one bus-word store through an xview of a typed build with BaseAlign >= the
\* bus word size and a bus-aligned word; otherwise (reg view, strict mode,
\* smaller BaseAlign, misaligned word) both are single-byte accesses in
\* increasing address order.
C16_OneWordRmw ==
    (/\ MmioOp("set") /\ status = "ok"
     /\ OneWordRmw(layout, last.idx, xcfg.bus))
        => LET wp == WordAddrOf(layout, last.idx, xcfg.bus, base)
           IN  /\ Accesses(trace) =
                     IF TypedWord(wp)
                     THEN << Ev("load", wp, xcfg.bus), Ev("store", wp, xcfg.bus) >>
                     ELSE ByteEvents("load", wp, xcfg.bus)
                              \o ByteEvents("store", wp, xcfg.bus)
               /\ mem = set_impl(bld, layout, last.idx, mem0, base, last.val)
               /\ \A k \in 0 .. (8 * MmioBytes - 1) :
                     k \notin { 8 * base + b : b \in FieldBitsOf(layout, last.idx) }
                        => MemBit(mem, k) = MemBit(mem0, k)

\* bf10 at bit 5 set through an xview over a 32-bit bus: one 4-byte load, the
\* first hook, one 4-byte store, the second hook; bits 5..14 rewritten
C16_Witness ==
    /\ MmioOp("set") /\ via.kind = "xview" /\ status = "ok"
    /\ xcfg.bus = 4 /\ base = 0
    /\ offsets_bits(layout, last.idx) = 5 /\ layout[last.idx].bits = 10
    /\ last.val = {0, 2, 9}
    /\ trace = << Ev("load", 0, 4), Ev("hook", 0, 0), Ev("store", 0, 4), Ev("hook", 0, 0) >>
    /\ mem # mem0
    /\ mem[0] = (mem0[0] % 32) + 5 * 32 /\ mem[2] = mem0[2]

\* the last operation took the byte-window fallback: a bitfield that does not
\* lie inside one bus word
ByteWindowOp ==
    /\ MmioOp("get") \/ MmioOp("set")
    /\ OnBitfieldPath(layout, last.idx)
    /\ ~fits_one(offsets_bits(layout, last.idx), layout[last.idx].bits, xcfg.bus)

\* the first byte and the number of bytes of the window of the last operation:
\* ceil((offset mod 8 + bits) / 8) bytes from byte offset / 8
WindowFirst == base + offsets_bits(layout, last.idx) \div 8
WindowLen == ((offsets_bits(layout, last.idx) % 8) + layout[last.idx].bits + 7) \div 8

\* C17: a get or set on a bitfield that spans more than one bus word, through
\* a reg view or an xview, accesses only the ceil((offset mod 8 + bits)/8)
\* window bytes, each by single-byte volatile operations in increasing
\* address order (a get loads each once; a set loads each once, then stores
\* each once); the run returns, a get returns the field's value, and a set
\* leaves every bit outside the field unchanged.
C17_ByteWindowFallback ==
    ByteWindowOp =>
        /\ status = "ok"
        /\ Accesses(trace) =
              IF last.op = "get" THEN ByteEvents("load", WindowFirst, WindowLen)
              ELSE ByteEvents("load", WindowFirst, WindowLen)
                       \o ByteEvents("store", WindowFirst, WindowLen)
        /\ last.op = "get" =>
              last.ret = get_impl(bld, layout, last.idx, mem, base)
        /\ last.op = "set" =>
              /\ mem = set_impl(bld, layout, last.idx, mem0, base, last.val)
              /\ \A k \in 0 .. (8 * MmioBytes - 1) :
                    k \notin { 8 * base + b : b \in FieldBitsOf(layout, last.idx) }
                       => MemBit(mem, k) = MemBit(mem0, k)

\* bf_cross (8 bits at bit 28) set through an xview over a 32-bit bus: bytes 3
\* and 4 loaded, then stored, one byte at a time between the two hooks; the
\* neighbouring nibbles keep their value
C17_Witness ==
    /\ MmioOp("set") /\ via.kind = "xview" /\ status = "ok"
    /\ xcfg.bus = 4 /\ base = 0
    /\ offsets_bits(layout, last.idx) = 28 /\ layout[last.idx].bits = 8
    /\ last.val = FromBytes(<<68, 51, 34, 17, 165, 90, 60, 195>>)
    /\ trace = << Ev("hook", 0, 0), Ev("load", 3, 1), Ev("load", 4, 1),
                  Ev("store", 3, 1), Ev("store", 4, 1), Ev("hook", 0, 0) >>
    /\ mem[3] = (mem0[3] % 16) + 4 * 16
    /\ mem[4] = (mem0[4] \div 16) * 16 + 4
    /\ mem # mem0

\* ------------------------------------------------------ hard-width builds

\* what instantiating mmio_load_bus_host / mmio_store_bus_host compiles to:
\* with MADPACKET_STRICT_MMIO and MADPACKET_MMIO_HARDWIDTH both defined the
\* static_assert(sizeof(Word) == 0, ...) fires
mmio_bus_host_inst(b) ==
    IF b.strict /\ b.hardwidth THEN "static_assert" ELSE "ok"

\* what instantiating mmio_load_bus_le_stream / mmio_store_bus_le_stream
\* compiles to: the strict branch calls mmio_load_u64_le_n / mmio_store_u64_le_n
\* and does not name the bus-host helpers
mmio_bus_le_stream_inst(b) ==
    IF b.strict THEN "ok" ELSE mmio_bus_host_inst(b)

\* what instantiating load_int_bytes_native / store_int_bytes_native compiles
\* to: every branch names a bus-host helper
int_bytes_native_inst(b) == mmio_bus_host_inst(b)

\* what xget_impl / xset_impl<Packet, Mutable, I, Cfg> compiles to for an
\* int_bits field; mask is Cfg::read_mask for a get, Cfg::write_mask for a set
ximpl_inst(b, fields, I, c, mask) ==
    LET bit_off == offsets_bits(fields, I)
        bits    == fields[I].bits
    IN  IF IsScalar(bit_off % 8, bits)
        THEN LET N      == bits \div 8
                 chosen == choose_width(c.width, N, bit_off \div 8, c.bus, mask)
             IN  IF c.width = "native" /\ chosen = N THEN "ok"
                 ELSE int_bytes_native_inst(b)
        ELSE IF ~is_native_endian(b.host, fields[I].endian) THEN "static_assert"
        ELSE IF fits_one(bit_off, bits, c.bus) THEN mmio_bus_le_stream_inst(b)
        ELSE "ok"

xget_impl_inst(b, fields, I, c) == ximpl_inst(b, fields, I, c, c.read_mask)

xset_impl_inst(b, fields, I, c) == ximpl_inst(b, fields, I, c, c.write_mask)

\* the packets of the hard-width test (bf10 at bit 5, a16_be at byte 3, w0),
\* a bitfield across two 32-bit words and a single byte
HardLayouts ==
    { LayoutOf(5, int_field("bf10", 10, FALSE, "native")),
      LayoutOf(24, int_field("a16_be", 16, FALSE, "big")),
      LayoutOf(0, int_field("w0", 32, FALSE, "native")),
      LayoutOf(28, int_field("bf_cross", 8, FALSE, "native")),
      LayoutOf(8, int_field("g1", 8, FALSE, "native")) }

InitHard ==
    /\ bld \in [ host : Hosts, int128 : {TRUE}, strict : BOOLEAN, ndebug : {FALSE},
                  ub_faults : {FALSE}, hardwidth : BOOLEAN ]
    /\ layout \in HardLayouts
    /\ mem0 = << >>
    /\ mem = << >>
    /\ last = NoOp
    /\ lastset = << >>
    /\ via = [ kind |-> "xview", checked |-> TRUE ]
    /\ xcfg \in { c \in Cfgs({2, 4}, {"assert_", "unchecked"}, {width_all, {4}}) :
                    c.base_align = c.bus }
    /\ base = 0
    /\ trace = << >>
    /\ status = "ok"

\* the translation unit names xview::get_i<I>()
InstGet(I) ==
    /\ last.op = "none"
    /\ LET r == xget_impl_inst(bld, layout, I, xcfg)
       IN  /\ last' = [ op |-> "get", idx |-> I, val |-> {}, ret |-> r ]
           /\ status' = IF r = "static_assert" THEN "static_assert" ELSE "ok"
    /\ UNCHANGED << bld, layout, mem0, mem, lastset, via, xcfg, base, trace >>

\* the translation unit names xview::set_i<I>(v)
InstSet(I) ==
    /\ last.op = "none"
    /\ LET r == xset_impl_inst(bld, layout, I, xcfg)
       IN  /\ last' = [ op |-> "set", idx |-> I, val |-> {}, ret |-> r ]
           /\ status' = IF r = "static_assert" THEN "static_assert" ELSE "ok"
    /\ UNCHANGED << bld, layout, mem0, mem, lastset, via, xcfg, base, trace >>

NextHard ==
    \/ \E I \in IntFieldsOf(layout) : InstGet(I)
    \/ \E I \in IntFieldsOf(layout) : InstSet(I)

SpecHard == InitHard /\ [][NextHard]_vars

\* the access of the last instantiation needs a bus-word transaction: a
\* one-word bitfield access, or a scalar that is not on the exact-width path
\* of the native policy
NeedsBusWord ==
    \/ OneWordRmw(layout, last.idx, xcfg.bus)
    \/ /\ ~OnBitfieldPath(layout, last.idx)
       /\ ~(xcfg.width = "native" /\ Chosen = FieldLen)

\* C19: with MADPACKET_STRICT_MMIO and MADPACKET_MMIO_HARDWIDTH both defined,
\* every get or set that needs a bus-word transaction fails to build.
C19_HardWidthRejects ==
    (/\ last.op \in {"get", "set"} /\ bld.strict /\ bld.hardwidth
     /\ NeedsBusWord)
        => last.ret = "static_assert"

\* ------------------------------------------------ plain-view byte accesses

\* the bytes the loop of load_u64_le_n<N> / load_u128_le_n<N> reads: p[0..N-1]
load_le_n_trace(p, n) == ByteEvents("load", p, n)

\* the byte reads of read_bits_le<BitOffset, BitCount>(buf)
read_bits_le_trace(int128, BitOffset, BitCount) ==
    LET W == bit_window(BitOffset, BitCount)
    IN  IF int128 THEN load_le_n_trace(W.byte, W.need_bytes)
        ELSE load_le_n_trace(W.byte, IF W.need_bytes <= 8 THEN W.need_bytes ELSE 8)
             \o (IF W.need_bytes > 8 THEN << Ev("load", W.byte + 8, 1) >> ELSE << >>)

\* the byte reads, then the byte writes of write_bits_le<BitOffset, BitCount>(buf, v)
write_bits_le_trace(int128, BitOffset, BitCount) ==
    LET W == bit_window(BitOffset, BitCount)
        store_lo == IF W.need_bytes <= 8 THEN W.need_bytes ELSE 8
    IN  read_bits_le_trace(int128, BitOffset, BitCount)
        \o (IF int128 THEN ByteEvents("store", W.byte, W.need_bytes)
            ELSE ByteEvents("store", W.byte, store_lo)
                 \o (IF W.need_bytes > 8 THEN << Ev("store", W.byte + 8, 1) >>
                     ELSE << >>))

\* the buffer bytes get_impl reads for an int_bits field
get_impl_trace(b, fields, I, p) ==
    LET bit_off == offsets_bits(fields, I)
        bits    == fields[I].bits
    IN  IF IsScalar(bit_off % 8, bits)
        THEN ByteEvents("load", p + bit_off \div 8, bits \div 8)
        ELSE read_bits_le_trace(b.int128, 8 * p + bit_off, bits)

\* the buffer bytes set_impl reads and writes for an int_bits field
set_impl_trace(b, fields, I, p) ==
    LET bit_off == offsets_bits(fields, I)
        bits    == fields[I].bits
    IN  IF IsScalar(bit_off % 8, bits)
        THEN ByteEvents("store", p + bit_off \div 8, bits \div 8)
        ELSE write_bits_le_trace(b.int128, 8 * p + bit_off, bits)

\* a plain view over pad_bits<lead>, one unsigned field of 1..64 bits and two
\* guard bytes, the buffer all ones or holding a different value in every byte
InitWindow ==
    /\ bld \in [ host : Hosts, int128 : BOOLEAN, strict : {FALSE},
                  ndebug : {FALSE}, ub_faults : {FALSE} ]
    /\ layout \in { LayoutOf(lead, int_field("bf", bits, FALSE, "native")) :
                      lead \in 0 .. MaxLead, bits \in 1 .. MaxBits }
    /\ mem0 \in { [ a \in 0 .. (MemBytes - 1) |-> 255 ],
                   [ a \in 0 .. (MemBytes - 1) |-> (37 * a + 90) % 256 ] }
    /\ mem = mem0
    /\ last = NoOp
    /\ lastset = << >>
    /\ via = [ kind |-> "view", checked |-> FALSE ]
    /\ xcfg = cfg(4, 4, "native", "assert_", width_all, width_all)
    /\ base = 0
    /\ trace = << >>
    /\ status = "ok"

WindowValues == { {}, U64, FromBytes(<<68, 51, 34, 17, 165, 90, 60, 195>>) }

\* view::set_i<I>(v), with the buffer bytes it accessed
WindowSet(I, v) ==
    /\ via.kind = "view"
    /\ mem' = set_impl(bld, layout, I, mem, base, v)
    /\ trace' = set_impl_trace(bld, layout, I, base)
    /\ last' = [ op |-> "set", idx |-> I, val |-> v, ret |-> {} ]
    /\ lastset' = << I, v >>
    /\ UNCHANGED << bld, layout, mem0, via, xcfg, base, status >>

\* view::get_i<I>(), with the buffer bytes it accessed
WindowGet(I) ==
    /\ via.kind = "view"
    /\ trace' = get_impl_trace(bld, layout, I, base)
    /\ last' = [ op |-> "get", idx |-> I, val |-> {},
                 ret |-> get_impl(bld, layout, I, mem, base) ]
    /\ UNCHANGED << bld, layout, mem0, mem, lastset, via, xcfg, base, status >>

NextWindow ==
    \/ \E I \in IntFieldsOf(layout), v \in WindowValues : WindowSet(I, v)
    \/ \E I \in IntFieldsOf(layout) : WindowGet(I)

SpecWindow == InitWindow /\ [][NextWindow]_vars

\* the addresses of the events of the given kind
AddrsOf(tr, kind) == { tr[i].a : i \in Positions(tr, {kind}) }

\* the bytes [offset div 8, offset div 8 + ceil((offset mod 8 + bits) / 8))
MinimalWindow(fields, I) ==
    LET off == offsets_bits(fields, I)
        n   == ((off % 8) + fields[I].bits + 7) \div 8
    IN  (off \div 8) .. ((off \div 8) + n - 1)

\* the buffer with every byte outside the set S complemented
FlipOutside(buf, S) ==
    [ a \in DOMAIN buf |-> IF a \in S THEN buf[a] ELSE 255 - buf[a] ]

\* C21: a get or set on a bitfield-path field through a plain view reads
\* exactly the ceil((offset mod 8 + bits)/8) bytes starting at byte
\* floor(offset/8), a set writes exactly those bytes and a get writes none;
\* no byte outside the window changes, the value a get returns does not depend
\* on any byte outside it, and the window is at most 9 bytes long.
C21_MinimalWindow ==
    (last.op \in {"get", "set"} /\ OnBitfieldPath(layout, last.idx))
        => LET win == MinimalWindow(layout, last.idx)
           IN  /\ Cardinality(win) <= 9
               /\ AddrsOf(trace, "load") = win
               /\ AddrsOf(trace, "store") = (IF last.op = "set" THEN win ELSE {})
               /\ \A i \in 1 .. Len(trace) : trace[i].w = 1
               /\ \A a \in (DOMAIN mem) \ win : mem[a] = mem0[a]
               /\ last.op = "get"
                    => get_impl(bld, layout, last.idx, FlipOutside(mem, win), base)
                         = last.ret

\* on the two-u64 build, a set of a 64-bit field at shift 7 read bytes 0..8
\* and wrote bytes 0..8, nine single-byte reads and nine single-byte writes
C21_Witness ==
    /\ last.op = "set"
    /\ ~bld.int128
    /\ layout[last.idx].bits = 64
    /\ offsets_bits(layout, last.idx) = 7
    /\ Len(trace) = 18
    /\ trace[9] = Ev("load", 8, 1)
    /\ trace[18] = Ev("store", 8, 1)
    /\ mem[9] = mem0[9]

\* ------------------------------------------- claims about byte order

\* the last get/set was on a byte-aligned 8/16/32/64-bit field declared
\* little_endian_t or big_endian_t
TaggedScalarOp ==
    /\ last.op \in {"get", "set"}
    /\ IsScalar(offsets_bits(layout, last.idx) % 8, layout[last.idx].bits)
    /\ layout[last.idx].endian \in {"little", "big"}

\* which byte of the value byte i of an N-byte field holds
ValueByteOf(endian, N, i) == IF endian = "little" THEN i ELSE N - 1 - i

\* C22: for a byte-aligned scalar of N bytes declared little-endian, set(v)
\* stores (v >> 8i) & 0xFF in byte i of the field, declared big-endian
\* (v >> 8(N-1-i)) & 0xFF, and get returns the value whose bytes those are
\* (sign-extended for a signed field), on little- and big-endian hosts alike.
C22_EndianBytes ==
    TaggedScalarOp
        => LET F     == layout[last.idx]
               N     == F.bits \div 8
               first == offsets_bits(layout, last.idx) \div 8
               held  == UNION { ByteShl(mem[first + i], ValueByteOf(F.endian, N, i)) :
                                  i \in 0 .. (N - 1) }
           IN  /\ last.op = "set"
                    => \A i \in 0 .. (N - 1) :
                         mem[first + i] = ByteAt(last.val, ValueByteOf(F.endian, N, i))
               /\ last.op = "get" => last.ret = Expected(held, F.bits, F.signed)

\* on a little-endian host a be_u32 was set to 0x...11223344: the buffer
\* holds 11 22 33 44
C22_Witness ==
    /\ last.op = "set"
    /\ bld.host = "little"
    /\ layout[last.idx].endian = "big"
    /\ layout[last.idx].bits = 32
    /\ ByteAt(last.val, 0) = 68 /\ ByteAt(last.val, 3) = 17
    /\ LET first == offsets_bits(layout, last.idx) \div 8
       IN  << mem[first], mem[first + 1], mem[first + 2], mem[first + 3] >>
             = << 17, 34, 51, 68 >>

\* ------------------------------------------------------ bit numbering

\* the largest number of 1-bit fields in a layout
MaxFlags == 9

\* packet<u1<"b0">, u1<"b1">, ...> of n fields
FlagsLayout(n) == [ k \in 1 .. n |-> int_field(<< "b", k - 1 >>, 1, FALSE, "native") ]

FlagValues == { {}, {0} }

\* a plain view over n 1-bit fields and an all-zero buffer
InitFlags ==
    /\ bld \in [ host : Hosts, int128 : BOOLEAN, strict : {FALSE},
                  ndebug : {FALSE}, ub_faults : {FALSE} ]
    /\ layout \in { FlagsLayout(n) : n \in 1 .. MaxFlags }
    /\ mem0 = [ a \in 0 .. (MemBytes - 1) |-> 0 ]
    /\ mem = mem0
    /\ last = NoOp
    /\ lastset = << >>
    /\ via = [ kind |-> "view", checked |-> FALSE ]
    /\ xcfg = cfg(4, 4, "native", "assert_", width_all, width_all)
    /\ base = 0
    /\ trace = << >>
    /\ status = "ok"

NextFlags ==
    \E I \in IntFieldsOf(layout), v \in FlagValues : ViewSet(I, v)

SpecFlags == InitFlags /\ [][NextFlags]_vars

AllZero(buf) == \A a \in DOMAIN buf : buf[a] = 0

\* the buffer in which only bit (k mod 8) of byte (k div 8) is set
OnlyBit(buf, k) ==
    [ a \in DOMAIN buf |-> IF a = k \div 8 THEN Pow2(k % 8) ELSE 0 ]

\* C23: in a layout of N consecutive 1-bit fields over an all-zero buffer,
\* setting field k alone to 1 leaves byte floor(k/8) with exactly bit
\* (k mod 8) set, bit 0 the least significant, and every other byte zero.
C23_BitNumbering ==
    [][ (AllZero(mem) /\ last'.op = "set" /\ last'.val = {0})
          => mem' = OnlyBit(mem, last'.idx - 1) ]_vars

\* field 8 of nine 1-bit fields was the only one set: the buffer is 00 01 00 ...
C23_Witness ==
    /\ Len(layout) = 9
    /\ last.op = "set" /\ last.idx = 9 /\ last.val = {0}
    /\ mem[0] = 0 /\ mem[1] = 1
    /\ \A a \in (DOMAIN mem) \ {1} : mem[a] = 0

\* ------------------------------------------------------- nested views

\* the packets of the nested-offset golden layouts, and a third level over them
SubAB == << int_field("a", 3, FALSE, "native"), int_field("b", 5, FALSE, "native"),
            int_field("c", 8, FALSE, "native") >>
InnerXY == << int_field("x", 4, FALSE, "native"), int_field("y", 4, FALSE, "native"),
              int_field("z", 8, FALSE, "native") >>
Sub2 == << int_field("pfx", 8, FALSE, "native"), subpacket_field(InnerXY, "inner"),
           int_field("sfx", 8, FALSE, "native") >>
NestedLayouts ==
    { << int_field("pre", 8, FALSE, "native"), subpacket_field(SubAB, "sub"),
         int_field("post", 8, FALSE, "native") >>,
      << int_field("pre", 8, FALSE, "native"), subpacket_field(Sub2, "sub"),
         int_field("post", 8, FALSE, "native") >>,
      << int_field("hdr", 16, FALSE, "big"), pad_bits(8),
         subpacket_field(<< int_field("pre", 8, FALSE, "native"),
                            subpacket_field(Sub2, "sub") >>, "body") >> }

NestedValues == { FromBytes(<<165, 90>>) }

\* the view a program holds: its packet, its base address, and the fields it
\* was reached through from the outermost view
ViewOf(fields, p, path) ==
    [ kind |-> "view", checked |-> FALSE, packet |-> fields, addr |-> p, path |-> path ]

InitNested ==
    /\ bld \in Builds({FALSE}, {FALSE})
    /\ layout \in NestedLayouts
    /\ base \in {0, 1}
    /\ mem0 = [ a \in 0 .. (MemBytes - 1) |-> (37 * a + 90) % 256 ]
    /\ mem = mem0
    /\ last = NoOp
    /\ lastset = << >>
    /\ via = ViewOf(layout, base, << >>)
    /\ xcfg = cfg(4, 4, "native", "assert_", width_all, width_all)
    /\ trace = << >>
    /\ status = "ok"

\* auto s = v.get<Name>() on a subpacket field: the program goes on with the
\* nested view
NestedGetSub(I) ==
    /\ via.packet[I].kind = "subpacket"
    /\ LET s == get_sub(via.packet, I, via.addr)
       IN  via' = ViewOf(s.packet, s.addr, Append(via.path, I))
    /\ last' = [ op |-> "sub", idx |-> I, val |-> {}, ret |-> {} ]
    /\ UNCHANGED << bld, layout, mem0, mem, lastset, xcfg, base, trace, status >>

\* the program goes back to the outermost view it still holds
NestedTop ==
    /\ via.path # << >>
    /\ via' = ViewOf(layout, base, << >>)
    /\ last' = [ op |-> "top", idx |-> 0, val |-> {}, ret |-> {} ]
    /\ UNCHANGED << bld, layout, mem0, mem, lastset, xcfg, base, trace, status >>

\* s.set_i<I>(v) through the view held
NestedSet(I, v) ==
    /\ mem' = set_impl(bld, via.packet, I, mem, via.addr, v)
    /\ last' = [ op |-> "set", idx |-> I, val |-> v, ret |-> {} ]
    /\ lastset' = << I, v >>
    /\ UNCHANGED << bld, layout, mem0, via, xcfg, base, trace, status >>

\* s.get_i<I>() through the view held
NestedGet(I) ==
    /\ last' = [ op |-> "get", idx |-> I, val |-> {},
                 ret |-> get_impl(bld, via.packet, I, mem, via.addr) ]
    /\ UNCHANGED << bld, layout, mem0, mem, lastset, via, xcfg, base, trace, status >>

NextNested ==
    \/ \E I \in 1 .. Len(via.packet) : NestedGetSub(I)
    \/ NestedTop
    \/ \E I \in IntFieldsOf(via.packet), v \in NestedValues : NestedSet(I, v)
    \/ \E I \in IntFieldsOf(via.packet) : NestedGet(I)

SpecNested == InitNested /\ [][NextNested]_vars

\* the packet reached from `fields` through the nested fields of `path`
RECURSIVE PacketAt(_, _)
PacketAt(fields, path) ==
    IF path = << >> THEN fields ELSE PacketAt(fields[Head(path)].sub, Tail(path))

\* parent byte offset plus the nested field's byte offset inside the parent,
\* level by level
RECURSIVE AbsByteOffset(_, _)
AbsByteOffset(fields, path) ==
    IF path = << >> THEN 0
    ELSE offsets_bits(fields, Head(path)) \div 8
         + AbsByteOffset(fields[Head(path)].sub, Tail(path))

\* C24: at any nesting depth the nested view returned by get is based at the
\* outermost base plus the sum, level by level, of the nested field's byte
\* offset inside its parent; a set through the nested view leaves the buffer
\* that the same set through a fresh view of the nested packet made at that
\* address leaves, and a get returns what the fresh view's get returns.
C24_NestedComposition ==
    [][ LET fresh == base + AbsByteOffset(layout, via'.path)
            P     == PacketAt(layout, via'.path)
        IN  /\ via'.addr = fresh
            /\ last'.op = "set"
                 => mem' = set_impl(bld, P, last'.idx, mem, fresh, last'.val)
            /\ last'.op = "get"
                 => last'.ret = get_impl(bld, P, last'.idx, mem, fresh) ]_vars

\* three levels down (body, sub, inner) from a view based at address 1, the
\* nested view is based at 1 + 3 + 1 + 1 = 6, and a set of y = 5 through it
\* changed the high nibble of byte 6 only
C24_Witness ==
    /\ base = 1
    /\ via.path = << 3, 2, 2 >>
    /\ via.addr = 6
    /\ last.op = "set" /\ last.idx = 2
    /\ mem[6] \div 16 = 5 /\ mem[6] % 16 = mem0[6] % 16
    /\ mem[5] = mem0[5] /\ mem[7] = mem0[7]

\* --------------------------------------------- claims about layout bounds

\* C25: no MMIO get or set (reg view or xview, any bus word size, any width
\* policy) reads or writes a byte at an offset >= layout.total_bytes from the
\* handle's base address, fields in the last bus word of a layout whose
\* total_bytes is not a multiple of the bus word size included.
C25_WithinLayout ==
    (MmioOp("get") \/ MmioOp("set"))
        => \A i \in Positions(trace, {"load", "store"}) :
              /\ trace[i].a >= base
              /\ trace[i].a + trace[i].w <= base + total_bytes(layout)

\* ------------------------------------------------ MMIO against the plain view

\* scalars of every size, byte order and signedness, aligned, misaligned and
\* across bus words; bitfields inside one bus word, across bus words and on a
\* 9-byte window
EquivLayouts ==
    { LayoutOf(p[1], int_field("f", p[2], p[3], p[4])) :
        p \in { <<0, 8, FALSE, "native">>,   <<8, 8, TRUE, "native">>,
                <<0, 16, FALSE, "little">>,  <<0, 16, TRUE, "big">>,
                <<24, 16, FALSE, "big">>,    <<16, 16, TRUE, "little">>,
                <<0, 32, FALSE, "big">>,     <<8, 32, TRUE, "little">>,
                <<32, 32, FALSE, "native">>, <<0, 64, TRUE, "big">>,
                <<8, 64, FALSE, "little">>,  <<5, 10, FALSE, "native">>,
                <<28, 8, FALSE, "native">>,  <<3, 3, TRUE, "native">>,
                <<0, 24, TRUE, "native">>,   <<1, 64, FALSE, "native">>,
                <<30, 40, TRUE, "native">> } }

EquivValues == { FromBytes(<<68, 51, 34, 17, 165, 90, 60, 195>>) }

InitEquiv ==
    InitMmio(Builds(BOOLEAN, {FALSE}), EquivLayouts,
             { c \in Cfgs({1, 2, 4, 8}, {"unchecked", "assert_"}, {width_all, {2}}) :
                 c.base_align \in {1, c.bus} }, {0, 1})

NextEquiv ==
    \/ \E I \in IntFieldsOf(layout), v \in EquivValues : RegSet(I, v)
    \/ \E I \in IntFieldsOf(layout) : RegGet(I)
    \/ \E I \in IntFieldsOf(layout), v \in EquivValues : XSet(I, v)
    \/ \E I \in IntFieldsOf(layout) : XGet(I)

SpecEquiv == InitEquiv /\ [][NextEquiv]_vars

\* C26: a set through an MMIO handle (reg view, or xview under any bus word
\* size, width policy and capability mask, strict mode on or off, either
\* host byte order) that returns leaves the bytes in memory that the same set
\* through a plain view of the same memory leaves, and an MMIO get that
\* returns gives the value the plain view's get gives.
C26_MmioRefinesView ==
    [][ status' = "ok"
          => /\ last'.op = "set"
                  => mem' = set_impl(bld, layout, last'.idx, mem, base, last'.val)
             /\ last'.op = "get"
                  => /\ last'.ret = get_impl(bld, layout, last'.idx, mem, base)
                     /\ mem' = mem ]_vars

\* on a big-endian host in strict mode, a signed little-endian u32 at byte 1
\* was set through an xview on a 16-bit bus under enforce_bus and the bytes
\* 44 33 22 11 are at addresses base+1 .. base+4
C26_Witness ==
    /\ via.kind = "xview" /\ bld.host = "big" /\ bld.strict
    /\ xcfg.bus = 2 /\ xcfg.width = "enforce_bus"
    /\ last.op = "set" /\ status = "ok"
    /\ layout[last.idx].bits = 32 /\ layout[last.idx].endian = "little"
    /\ offsets_bits(layout, last.idx) = 8
    /\ << mem[base + 1], mem[base + 2], mem[base + 3], mem[base + 4] >>
         = << 68, 51, 34, 17 >>
    /\ mem[base] = mem0[base] /\ mem[base + 5] = mem0[base + 5]

\* --------------------------------------- claims about a constructed xview

\* C27: once make_xview has accepted the base address under the Assert or
\* Trap alignment policy, no get or set on an Integer field of a valid layout
\* ends in an alignment assertion failure or a trap.
C27_NoFaultAfterConstruction ==
    (/\ via.kind = "xview" /\ via.checked
     /\ xcfg.align \in {"assert_", "trap"}
     /\ last.op \in {"get", "set"})
        => status = "ok"

\* C28: every load an xview get or set issues (the load half of a
\* read-modify-write included) has a width the configuration's read
\* capability mask permits, and every store a width its write capability mask
\* permits, also when no legal width >= the field width exists.
C28_WidthsPermitted ==
    (via.kind = "xview" /\ last.op \in {"get", "set"})
        => /\ \A i \in Positions(trace, {"load"}) : trace[i].w \in xcfg.read_mask
           /\ \A i \in Positions(trace, {"store"}) : trace[i].w \in xcfg.write_mask

\* ------------------------------------------------ sequences of sets

\* layouts of several Integer fields: bitfields sharing bytes, a 64-bit
\* bitfield on a 9-byte window next to a 7-bit tail, and bitfields next to
\* byte-aligned scalars of both byte orders
SeqLayouts ==
    { << int_field("pre", 3, FALSE, "native"), int_field("u13", 13, FALSE, "native"),
         int_field("post", 4, FALSE, "native") >>,
      << pad_bits(1), int_field("u64bits", 64, FALSE, "native"),
         int_field("tail7", 7, FALSE, "native") >>,
      << int_field("head", 3, TRUE, "native"), int_field("x", 10, FALSE, "native"),
         int_field("tail", 3, TRUE, "native") >>,
      << int_field("c", 5, TRUE, "native"), int_field("d", 3, FALSE, "native"),
         int_field("b", 16, TRUE, "big"), int_field("a", 8, FALSE, "little") >> }

InitSeq ==
    /\ bld \in [ host : Hosts, int128 : BOOLEAN, strict : {FALSE},
                  ndebug : {FALSE}, ub_faults : {FALSE} ]
    /\ layout \in SeqLayouts
    /\ mem0 \in { [ a \in 0 .. (MemBytes - 1) |-> 0 ],
                   [ a \in 0 .. (MemBytes - 1) |-> (37 * a + 90) % 256 ] }
    /\ mem = mem0
    /\ last = NoOp
    /\ lastset = << >>
    /\ via = [ kind |-> "view", checked |-> FALSE ]
    /\ xcfg = cfg(4, 4, "native", "assert_", width_all, width_all)
    /\ base = 0
    /\ trace = << >>
    /\ status = "ok"

SeqValues == { U64, FromBytes(<<68, 51, 34, 17, 165, 90, 60, 195>>) }

NextSeq ==
    \/ \E I \in IntFieldsOf(layout), v \in SeqValues : ViewSet(I, v)
    \/ \E I \in IntFieldsOf(layout) : ViewGet(I)

SpecSeq == InitSeq /\ [][NextSeq]_vars

\* C29: through a plain view, each set makes get on the field set return the
\* truncated (sign- or zero-extended) argument and changes the value get
\* returns on no other Integer field; so, after any sequence of sets, get on
\* each field returns the truncated value of the most recent set to it, or
\* its initial content if it was never set.
C29_SetsIndependent ==
    [][ last'.op = "set"
          => \A J \in IntFieldsOf(layout) :
                get_impl(bld, layout, J, mem', 0)
                  = IF J = last'.idx
                    THEN Expected(last'.val, layout[J].bits, layout[J].signed)
                    ELSE get_impl(bld, layout, J, mem, 0) ]_vars

\* on the two-u64 build, after tail7 was set to all ones and then the 64-bit
\* bitfield at bit 1 to 0xC33C5AA511223344 over an all-zero buffer, tail7
\* still reads 0x7F and the pad bit is still zero
C29_Witness ==
    /\ ~bld.int128
    /\ Len(layout) = 3 /\ layout[2].bits = 64
    /\ mem0[0] = 0
    /\ last.op = "set" /\ last.idx = 2 /\ last.val # U64
    /\ get_impl(bld, layout, 3, mem, 0) = 0 .. 6
    /\ get_impl(bld, layout, 2, mem, 0) = last.val
    /\ mem[8] = 255 /\ mem[0] = 136

\* ------------------------------------ the two bit-window implementations

\* C30: the 128-bit path and the two-u64 path of read_bits_le / write_bits_le
\* return the same value and leave the same bytes in the buffer for every
\* shift 0..7, every width 1..64, every value and every prior buffer content,
\* 9-byte windows included: whichever path the build runs, each bitfield get
\* returns what both paths compute from the buffer and each bitfield set
\* leaves the buffer both paths compute.
C30_PathsAgree ==
    [][ (last'.op \in {"get", "set"} /\ OnBitfieldPath(layout, last'.idx))
          => LET off  == 8 * base + offsets_bits(layout, last'.idx)
                 bits == layout[last'.idx].bits
                 v    == to_u64(last'.val)
             IN  /\ read_bits_le_128(mem, off, bits) = read_bits_le_64(mem, off, bits)
                 /\ write_bits_le_128(mem, off, bits, v) = write_bits_le_64(mem, off, bits, v)
                 /\ last'.op = "get"
                      => last'.ret = sign_extend(bits, layout[last'.idx].signed,
                                                 read_bits_le_64(mem, off, bits))
                 /\ last'.op = "set"
                      => /\ mem' = write_bits_le_128(mem, off, bits, v)
                         /\ mem' = write_bits_le_64(mem, off, bits, v) ]_vars

\* the two-u64 build read a 64-bit field at shift 3, whose top three bits
\* come from the ninth window byte, after a set of 0xC33C5AA511223344
C30_Witness ==
    /\ ~bld.int128
    /\ last.op = "get"
    /\ layout[last.idx].bits = 64
    /\ offsets_bits(layout, last.idx) = 3
    /\ lastset = << last.idx, FromBytes(<<68, 51, 34, 17, 165, 90, 60, 195>>) >>
    /\ last.ret = read_bits_le_128(mem, 3, 64)
    /\ last.ret = lastset[2]
    /\ {62, 63} \subseteq last.ret

====
